---------------------------- MODULE Spec2Model ----------------------------
(***************************************************************************)
(* A model of the BPL compiler (dan-f/bpl): the scanner's DFA              *)
(* (bpl/scanner/scanner.py), the expression parser                         *)
(* (bpl/parser/parser.py), the resolver and type checker                   *)
(* (bpl/type_checker/type_checker.py), the code generator with the code    *)
(* it writes run on a small machine (bpl/code_gen/code_gen.py), and the    *)
(* driver's loop over its files (bpl/test/code_gen_test.py).               *)
(*                                                                         *)
(* The sources are Python 2 (dict.iteritems, generator.next, map called    *)
(* for its effects), so map is eager and an ordering comparison between    *)
(* None, a number and a string is defined by the interpreter.              *)
(*                                                                         *)
(* Strings of the input are sequences of one-character strings.  The       *)
(* sibling lists of the parse tree (a node and its nxt chain) are          *)
(* sequences.  A node is identified by its line_number.                    *)
(***************************************************************************)
EXTENDS Integers, Sequences, FiniteSets, TLC

VARIABLES
    \* ---- Scanner._next_token_gen ----
    buf,        \* the file's text
    i,          \* index into buf (0-based, as in the source)
    line,       \* current line number
    state,      \* DFA state
    cur_str,    \* the current token's string value
    tokens,     \* the tokens yielded so far
    scan_pc,    \* "idle" | "loop" | "done" | "raised"
    scan_err,   \* the exception that ended the generator, "" if none
    steps,      \* the iterations of the generator's while loop so far
    next_token, \* self.next_token
    calls,      \* the calls of get_next_token so far
    \* ---- TypeChecker ----
    tree,       \* the AST: the sequence of top-level declarations
    tc_pc,      \* "idle" | "parsed" | "linked" | "checked" | "raised"
    tc_err,     \* the exception that ended type_check, "" if none
    \* ---- CodeGenerator, and the machine running what it wrote ----
    cg_pc,       \* "idle" | "emitted" | "raised" | "running" | "body" | "fault" |
                 \* "exited"
    cg_err,      \* the exception that ended gen_all, "" if none
    offset,      \* dec.offset: line of a declaration -> offset from the frame pointer
    locals_size, \* func.locals_size: line of a function -> bytes of locals
    string_dict, \* self.string_dict: a string literal's val -> number of its label
    prog,        \* the assembly file: a sequence of labels and instructions
    ip,          \* index in prog of the next instruction (1-based)
    mem,         \* memory: address -> 64-bit word
    reg,         \* the registers, and flags: the difference the last cmp computed
    \* ---- Parser, on one expression statement ----
    toks,        \* the tokens the scanner hands over, EOF last
    pos,         \* index in toks of self.scan.next_token (1-based)
    parse_pc,    \* "idle" | "expression" | "first_exp" | "returned" | "raised"
    parse_err,   \* the exception that ended the parse, "" if none
    first_exp,   \* the local first_exp of the outermost call of expression
    stmt_exp,    \* the local exp of expression_statement
    \* ---- the driver of bpl/test/code_gen_test.py ----
    argv,        \* sys.argv[1:]: per file, the stage that raises on it
    main_pc,     \* "idle" | "Parser" | "parse" | "type_check" | "gen_all" | "call" |
                 \* "exited" | "raised"
    main_k,      \* index in argv of the file at hand (1-based)
    attempted    \* the indices of the files a Parser was constructed for

scanVars == <<buf, i, line, state, cur_str, tokens, scan_pc, scan_err,
              steps, next_token, calls>>
tcVars   == <<tree, tc_pc, tc_err>>
cgVars   == <<cg_pc, cg_err, offset, locals_size, string_dict, prog, ip, mem, reg>>
parseVars == <<toks, pos, parse_pc, parse_err, first_exp, stmt_exp>>
mainVars == <<argv, main_pc, main_k, attempted>>
vars     == <<scanVars, tcVars, cgVars, parseVars, mainVars>>

ParseIdle ==
    /\ toks = <<>> /\ pos = 0 /\ parse_pc = "idle" /\ parse_err = ""
    /\ first_exp = <<>> /\ stmt_exp = <<>>
MainIdle ==
    /\ argv = <<>> /\ main_pc = "idle" /\ main_k = 0 /\ attempted = {}

(***************************************************************************)
(* Bounds of the model.                                                    *)
(***************************************************************************)
\* longest input text enumerated character by character
MaxLen == 3
\* longest comment body and longest tail after a closed comment
MaxComment == 1

\* The seq's of length <= n over S
RECURSIVE SeqsUpTo(_, _)
SeqsUpTo(S, n) ==
    IF n = 0 THEN {<<>>}
    ELSE LET shorter == SeqsUpTo(S, n - 1)
         IN  shorter \cup {Append(s, c) : s \in {t \in shorter : Len(t) = n - 1}, c \in S}

(***************************************************************************)
(*                              THE SCANNER                                *)
(***************************************************************************)
ScanIdle ==
    /\ buf = <<>> /\ i = 0 /\ line = 0 /\ state = "START" /\ cur_str = <<>>
    /\ tokens = <<>> /\ scan_pc = "idle" /\ scan_err = ""
    /\ steps = 0 /\ next_token = <<>> /\ calls = 0

\* str.isspace, str.isalpha, str.isdigit, str.isalnum on the model's characters
isspace(c) == c \in {" ", "\n"}
isalpha(c) == c \in {"i", "f"}
isdigit(c) == c \in {"1"}
isalnum(c) == isalpha(c) \/ isdigit(c)

\* The characters input texts are drawn from: letters (of the keyword "if"),
\* a digit, an underscore, blanks, symbol characters, the two comment
\* characters and a double quote.
Alphabet == {"i", "f", "1", "_", " ", "\n", "<", ">", "=", "!", "/", "*", "\""}

\* TokenType.Keywords
Keywords ==
    [k \in { <<"i","n","t">>, <<"v","o","i","d">>, <<"s","t","r","i","n","g">>,
             <<"i","f">>, <<"e","l","s","e">>, <<"w","h","i","l","e">>,
             <<"r","e","t","u","r","n">>, <<"w","r","i","t","e">>,
             <<"w","r","i","t","e","l","n">>, <<"r","e","a","d">> } |->
        CASE k = <<"i","n","t">> -> "INT"
          [] k = <<"v","o","i","d">> -> "VOID"
          [] k = <<"s","t","r","i","n","g">> -> "STRING"
          [] k = <<"i","f">> -> "IF"
          [] k = <<"e","l","s","e">> -> "ELSE"
          [] k = <<"w","h","i","l","e">> -> "WHILE"
          [] k = <<"r","e","t","u","r","n">> -> "RETURN"
          [] k = <<"w","r","i","t","e">> -> "WRITE"
          [] k = <<"w","r","i","t","e","l","n">> -> "WRITELN"
          [] OTHER -> "READ"]

\* TokenType.Symbols
Symbols ==
    [s \in { <<"=">>, <<";">>, <<",">>, <<"[">>, <<"]">>, <<"{">>, <<"}">>,
             <<"(">>, <<")">>, <<"<">>, <<"<","=">>, <<"=","=">>, <<"!","=">>,
             <<">","=">>, <<">">>, <<"+">>, <<"-">>, <<"*">>, <<"/">>, <<"%">>,
             <<"&">> } |->
        CASE s = <<"=">> -> "EQUAL"     [] s = <<";">> -> "SEMI"
          [] s = <<",">> -> "COMMA"     [] s = <<"[">> -> "LSQUARE"
          [] s = <<"]">> -> "RSQUARE"   [] s = <<"{">> -> "LCURLY"
          [] s = <<"}">> -> "RCURLY"    [] s = <<"(">> -> "LPAREN"
          [] s = <<")">> -> "RPAREN"    [] s = <<"<">> -> "LESS"
          [] s = <<"<","=">> -> "LEQUAL" [] s = <<"=","=">> -> "BOOLEQ"
          [] s = <<"!","=">> -> "NEQUAL" [] s = <<">","=">> -> "GEQUAL"
          [] s = <<">">> -> "GREATER"   [] s = <<"+">> -> "PLUS"
          [] s = <<"-">> -> "MINUS"     [] s = <<"*">> -> "STAR"
          [] s = <<"/">> -> "SLASH"     [] s = <<"%">> -> "MOD"
          [] OTHER -> "AMP"]

\* str.startswith
startswith(s, p) == Len(p) <= Len(s) /\ SubSeq(s, 1, Len(p)) = p

\* [sym for sym in TokenType.Symbols if sym.startswith(cur_str + buf[i])]
matches(str, c) == {sym \in DOMAIN Symbols : startswith(sym, Append(str, c))}

\* Token(typ, val, line)
Token(typ, val, ln) == [typ |-> typ, val |-> val, line |-> ln]

\* buf[i] of the source (i is 0-based)
At(k) == buf[k + 1]

\* texts of several lines with tokens after newlines and after comments
LineTexts ==
    { <<"/", "*", "\n", "*", "/", "1", " ">>,
      <<"1", "\n", "/", "*", "\n", "\n", "*", "/", "<", "=", "\n", "i", "f", " ">>,
      <<"\"", "i", "\"", "\n", "/", "*", "*", "/", "\n", "\"", "\"", "\n">> }

\* texts that begin with a string literal holding a backslash before a
\* double quote
EscapeTexts ==
    { <<"\"", "\\", "\"", "i", "\"", " ">>,
      <<"\"", "i", "\\", "\"", "\"", " ">>,
      <<"\"", "\\", "\"", "\"", "1", " ">>,
      <<"\"", "\\", "\"", " ">> }

\* The input texts: every text of at most MaxLen characters, a closed
\* comment followed by a short tail, and the texts above.
Buffers ==
    SeqsUpTo(Alphabet, MaxLen)
    \cup { <<"/", "*">> \o c \o <<"*", "/">> \o t :
             c \in SeqsUpTo(Alphabet, MaxComment), t \in SeqsUpTo(Alphabet, MaxComment) }
    \cup LineTexts \cup EscapeTexts

\* an exception leaves the generator
ScanRaise(e) ==
    /\ scan_pc' = "raised" /\ scan_err' = e
    /\ UNCHANGED <<buf, i, line, state, cur_str, tokens>>

\* one iteration of the while loop in state START
ScanStart ==
    /\ scan_pc = "loop" /\ i < Len(buf) /\ state = "START"
    /\ LET c == At(i) IN
       IF isspace(c) THEN
            /\ line' = IF c = "\n" THEN line + 1 ELSE line
            /\ i' = i + 1
            /\ UNCHANGED <<buf, state, cur_str, tokens, scan_pc, scan_err>>
       ELSE IF i < Len(buf) - 1 /\ c = "/" /\ At(i + 1) = "*" THEN
            /\ state' = "COMMENT" /\ i' = i + 2
            /\ UNCHANGED <<buf, line, cur_str, tokens, scan_pc, scan_err>>
       ELSE IF c = "\"" THEN
            /\ state' = "STRLIT" /\ i' = i + 1
            /\ UNCHANGED <<buf, line, cur_str, tokens, scan_pc, scan_err>>
       ELSE IF isalpha(c) THEN
            /\ cur_str' = Append(cur_str, c) /\ state' = "KEY_ID" /\ i' = i + 1
            /\ UNCHANGED <<buf, line, tokens, scan_pc, scan_err>>
       ELSE IF matches(cur_str, c) # {} THEN
            /\ cur_str' = Append(cur_str, c) /\ state' = "SYMBOL" /\ i' = i + 1
            /\ UNCHANGED <<buf, line, tokens, scan_pc, scan_err>>
       ELSE IF isdigit(c) THEN
            /\ cur_str' = Append(cur_str, c) /\ state' = "NUMBER" /\ i' = i + 1
            /\ UNCHANGED <<buf, line, tokens, scan_pc, scan_err>>
       ELSE ScanRaise("Unknown character")
    /\ steps' = steps + 1 /\ UNCHANGED <<next_token, calls>>
    /\ UNCHANGED <<tcVars, cgVars, parseVars, mainVars>>

\* the iteration in state COMMENT without the count of lines
ScanComment_line_not_counted ==
    /\ scan_pc = "loop" /\ i < Len(buf) /\ state = "COMMENT"
    /\ line' = line
    /\ IF i < Len(buf) - 1 /\ At(i) = "*" /\ At(i + 1) = "/"
       THEN i' = i + 2 /\ state' = "START"
       ELSE i' = i + 1 /\ state' = state
    /\ UNCHANGED <<buf, cur_str, tokens, scan_pc, scan_err>>
    /\ steps' = steps + 1 /\ UNCHANGED <<next_token, calls>>
    /\ UNCHANGED <<tcVars, cgVars, parseVars, mainVars>>
\* one iteration in state COMMENT
ScanComment ==
    /\ scan_pc = "loop" /\ i < Len(buf) /\ state = "COMMENT"
    /\ line' = IF At(i) = "\n" THEN line + 1 ELSE line
    /\ IF i < Len(buf) - 1 /\ At(i) = "*" /\ At(i + 1) = "/"
       THEN i' = i + 2 /\ state' = "START"
       ELSE i' = i + 1 /\ state' = state
    /\ UNCHANGED <<buf, cur_str, tokens, scan_pc, scan_err>>
    /\ steps' = steps + 1 /\ UNCHANGED <<next_token, calls>>
    /\ UNCHANGED <<tcVars, cgVars, parseVars, mainVars>>

\* one iteration in state STRLIT
ScanStrlit ==
    /\ scan_pc = "loop" /\ i < Len(buf) /\ state = "STRLIT"
    /\ IF At(i) = "\n" THEN ScanRaise("Unexpected newline in string literal")
       ELSE /\ IF At(i) # "\""
               THEN /\ cur_str' = Append(cur_str, At(i))
                    /\ UNCHANGED <<tokens, state>>
               ELSE /\ tokens' = Append(tokens, Token("STRLIT", cur_str, line))
                    /\ cur_str' = <<>>
                    /\ state' = "START"
            /\ i' = i + 1
            /\ UNCHANGED <<buf, line, scan_pc, scan_err>>
    /\ steps' = steps + 1 /\ UNCHANGED <<next_token, calls>>
    /\ UNCHANGED <<tcVars, cgVars, parseVars, mainVars>>

\* one iteration in state KEY_ID
ScanKeyId ==
    /\ scan_pc = "loop" /\ i < Len(buf) /\ state = "KEY_ID"
    /\ IF isalnum(At(i)) \/ At(i) = "_"
       THEN /\ cur_str' = Append(cur_str, At(i)) /\ i' = i + 1
            /\ UNCHANGED <<tokens, state>>
       ELSE /\ tokens' = Append(tokens,
                   IF cur_str \in DOMAIN Keywords
                   THEN Token(Keywords[cur_str], cur_str, line)
                   ELSE Token("ID", cur_str, line))
            /\ cur_str' = <<>> /\ state' = "START"
            /\ UNCHANGED i
    /\ UNCHANGED <<buf, line, scan_pc, scan_err>>
    /\ steps' = steps + 1 /\ UNCHANGED <<next_token, calls>>
    /\ UNCHANGED <<tcVars, cgVars, parseVars, mainVars>>

\* one iteration in state SYMBOL
ScanSymbol ==
    /\ scan_pc = "loop" /\ i < Len(buf) /\ state = "SYMBOL"
    /\ IF matches(cur_str, At(i)) # {}
       THEN /\ cur_str' = Append(cur_str, At(i)) /\ i' = i + 1
            /\ UNCHANGED <<buf, line, state, tokens, scan_pc, scan_err>>
       ELSE IF cur_str \in DOMAIN Symbols
       THEN /\ tokens' = Append(tokens, Token(Symbols[cur_str], cur_str, line))
            /\ cur_str' = <<>> /\ state' = "START"
            /\ UNCHANGED <<buf, i, line, scan_pc, scan_err>>
       ELSE ScanRaise("KeyError")      \* TokenType.Symbols[cur_str]
    /\ steps' = steps + 1 /\ UNCHANGED <<next_token, calls>>
    /\ UNCHANGED <<tcVars, cgVars, parseVars, mainVars>>

\* one iteration in state NUMBER
ScanNumber ==
    /\ scan_pc = "loop" /\ i < Len(buf) /\ state = "NUMBER"
    /\ IF isdigit(At(i))
       THEN /\ cur_str' = Append(cur_str, At(i)) /\ i' = i + 1
            /\ UNCHANGED <<tokens, state>>
       ELSE /\ tokens' = Append(tokens, Token("NUM", cur_str, line))
            /\ cur_str' = <<>> /\ state' = "START"
            /\ UNCHANGED i
    /\ UNCHANGED <<buf, line, scan_pc, scan_err>>
    /\ steps' = steps + 1 /\ UNCHANGED <<next_token, calls>>
    /\ UNCHANGED <<tcVars, cgVars, parseVars, mainVars>>

\* nothing left in the buffer
ScanEnd ==
    /\ scan_pc = "loop" /\ ~(i < Len(buf))
    /\ IF state = "STRLIT" THEN ScanRaise("Unclosed string literal")
       ELSE IF state = "COMMENT" THEN ScanRaise("Unclosed comment")
       ELSE /\ tokens' = Append(tokens, Token("EOF", <<"E","O","F">>, line))
            /\ scan_pc' = "done"
            /\ UNCHANGED <<buf, i, line, state, cur_str, scan_err>>
    /\ UNCHANGED <<steps, next_token, calls>>
    /\ UNCHANGED <<tcVars, cgVars, parseVars, mainVars>>

\* the calls of get_next_token made after the stream has ended
ExtraCalls == 2

\* Scanner.get_next_token, the generator having run as far as it goes:
\* the call takes the next token yielded; when there is none left the
\* generator's exception, or StopIteration (lines 27-28), leaves
\* self.next_token as it is
ScanGetNextToken ==
    /\ scan_pc \in {"done", "raised"} /\ calls < Len(tokens) + ExtraCalls
    /\ calls' = calls + 1
    /\ next_token' = IF calls < Len(tokens) THEN tokens[calls + 1] ELSE next_token
    /\ UNCHANGED <<buf, i, line, state, cur_str, tokens, scan_pc, scan_err, steps>>
    /\ UNCHANGED <<tcVars, cgVars, parseVars, mainVars>>


(***************************************************************************)
(*                      THE PARSE TREE (parsetree.py)                      *)
(***************************************************************************)
\* Python's None
None == [kind |-> "None"]
\* a node that has no attribute dec (resp. typ) yet
NoDec == 0
NoTyp == "unset"

\* BPLType: the parser builds INT, STRING, VOID and, through address(), the
\* two pointer types; nothing in the sources builds INT_ARR or STR_ARR.
BPLTypes == {"INT", "STRING", "VOID", "INT_PTR", "STR_PTR", "INT_ARR", "STR_ARR"}

\* BPLType.is_pointer
is_pointer(t) == t \in {"INT_PTR", "STR_PTR"}
\* BPLType.address
address(t) == IF t = "INT" THEN "INT_PTR" ELSE IF t = "STRING" THEN "STR_PTR" ELSE t
\* BPLType.deref
deref(t) == IF t = "INT_PTR" THEN "INT" ELSE IF t = "STR_PTR" THEN "STRING" ELSE t

\* A NUM token's val: the str of the digits of n (scanner.py:146-151)
NumStr(n) == [py |-> "str", n |-> n]
\* An array size as the parser leaves it: None (a parameter, parser.py:204)
\* or the NUM token's string value (parser.py:121-124).
SizeNone == [py |-> "NoneType", n |-> 0]
SizeStr(n) == NumStr(n)

\* Python 2's v < k for an int k: None sorts before every number, a str
\* after every number, two ints by value.
py2_less_int(v, k) ==
    IF v.py = "NoneType" THEN TRUE
    ELSE IF v.py = "str" THEN FALSE
    ELSE v.n < k

\* VarDecNode; a pointer declaration has typ already address()ed (parser.py:79-82)
VarDec(ln, name, typ) ==
    [kind |-> "VAR_DEC", line_number |-> ln, name |-> name, typ |-> typ,
     is_global |-> FALSE]
\* ArrDecNode: typ is the element type given in the declaration (parser.py:133-139)
ArrDec(ln, name, typ, size) ==
    [kind |-> "ARR_DEC", line_number |-> ln, name |-> name, typ |-> typ,
     size |-> size, is_global |-> FALSE]
\* FunDecNode
FunDec(ln, name, typ, params, body) ==
    [kind |-> "FUN_DEC", line_number |-> ln, name |-> name, typ |-> typ,
     params |-> params, body |-> body, is_global |-> FALSE]

\* statement nodes
CompStmt(ln, local_decs, stmt_list) ==
    [kind |-> "COMP_STMT", line_number |-> ln, local_decs |-> local_decs,
     stmt_list |-> stmt_list]
ExpStmt(ln, expr) == [kind |-> "EXPR_STMT", line_number |-> ln, expr |-> expr]
IfStmt(ln, cond, true_body, false_body) ==
    [kind |-> "IF_STMT", line_number |-> ln, cond |-> cond,
     true_body |-> true_body, false_body |-> false_body]
WhileStmt(ln, cond, body) ==
    [kind |-> "WHILE_STMT", line_number |-> ln, cond |-> cond, body |-> body]
RetStmt(ln, val) == [kind |-> "RET_STMT", line_number |-> ln, val |-> val]
WriteStmt(ln, expr) == [kind |-> "WRITE_STMT", line_number |-> ln, expr |-> expr]
WritelnStmt(ln) == [kind |-> "WRITELN_STMT", line_number |-> ln]

\* expression nodes
\* IntExpNode: val is the NUM token's string value (parser.py:577-582)
IntExpNode(ln, val) ==
    [kind |-> "INT_EXP", line_number |-> ln, val |-> val, typ |-> NoTyp]
\* the literal 1
IntExp(ln) == IntExpNode(ln, NumStr(1))
\* StrExpNode: val is the text between the quotes
StrExpNode(ln, val) ==
    [kind |-> "STR_EXP", line_number |-> ln, val |-> val, typ |-> NoTyp]
\* the text of a string literal
StrVal(text) == [py |-> "str", text |-> text]
\* the literal "s"
StrExp(ln) == StrExpNode(ln, StrVal("s"))
ReadExp(ln) == [kind |-> "READ_EXP", line_number |-> ln, typ |-> NoTyp]
VarExp(ln, name) ==
    [kind |-> "VAR_EXP", line_number |-> ln, name |-> name, dec |-> NoDec,
     typ |-> NoTyp]
ArrExp(ln, name, index) ==
    [kind |-> "ARR_EXP", line_number |-> ln, name |-> name, index |-> index,
     dec |-> NoDec, typ |-> NoTyp]
FunCallExp(ln, name, params) ==
    [kind |-> "FUN_CALL_EXP", line_number |-> ln, name |-> name,
     params |-> params, dec |-> NoDec, typ |-> NoTyp]
AddrExp(ln, exp) == [kind |-> "ADDR_EXP", line_number |-> ln, exp |-> exp, typ |-> NoTyp]
DerefExp(ln, exp) == [kind |-> "DEREF_EXP", line_number |-> ln, exp |-> exp, typ |-> NoTyp]
NegExp(ln, exp) == [kind |-> "NEG_EXP", line_number |-> ln, exp |-> exp, typ |-> NoTyp]
\* OpExpNode, of kind ASSIGN_EXP, COMP_EXP or ARITH_EXP
OpExp(kind, ln, op, l_exp, r_exp) ==
    [kind |-> kind, line_number |-> ln, op |-> op, l_exp |-> l_exp,
     r_exp |-> r_exp, typ |-> NoTyp]

\* isinstance(expr, OpExpNode)
IsOpExp(e) == e.kind \in {"ASSIGN_EXP", "COMP_EXP", "ARITH_EXP"}

(***************************************************************************)
(*        NAME RESOLUTION (TypeChecker.link_all_refs and below)            *)
(*                                                                         *)
(* A walk of the code does three things: it threads the stack of symbol    *)
(* tables, it writes attributes into the nodes, and it may raise.  Each    *)
(* walk is given by the node as the walk leaves it (link_expr, ...) and    *)
(* by the exceptions it would raise, in the order of the walk              *)
(* (..._raises): the first of them is the one that ends type_check.        *)
(***************************************************************************)
EmptyTable == [x \in {} |-> NoDec]

\* TypeChecker.add_dec, line 127: the size test
add_dec_raises(dec) ==
    IF dec.kind = "ARR_DEC" /\ py2_less_int(dec.size, 1)
    THEN <<"TypeException: Array declaration must have size of at least 1.">>
    ELSE <<>>

\* TypeChecker.add_dec, line 136: dec is entered in the top table
add_dec(st, dec) ==
    [st EXCEPT ![Len(st)] = (dec.name :> dec.line_number) @@ st[Len(st)]]

\* map(self.add_dec, decs): the stack of tables afterwards
RECURSIVE add_decs(_, _)
add_decs(st, decs) ==
    IF decs = <<>> THEN st ELSE add_decs(add_dec(st, Head(decs)), Tail(decs))

\* map(self.add_dec, decs): the exceptions
RECURSIVE add_decs_raises(_)
add_decs_raises(decs) ==
    IF decs = <<>> THEN <<>> ELSE add_dec_raises(Head(decs)) \o add_decs_raises(Tail(decs))

\* TypeChecker.add_dec, line 135, on each of decs: top_level is `dec in self.tree`
mark_decs(decs, top_level) ==
    [k \in DOMAIN decs |-> [decs[k] EXCEPT !.is_global = top_level]]

\* TypeChecker.get_dec
get_dec(st, symbol, function) ==
    IF function
    THEN IF symbol \in DOMAIN st[1] THEN st[1][symbol] ELSE NoDec
    ELSE LET hits == {k \in 1..Len(st) : symbol \in DOMAIN st[k]}
         IN  IF hits = {} THEN NoDec
             ELSE st[CHOOSE k \in hits : \A j \in hits : j <= k][symbol]

\* TypeChecker.link_to_dec
link_to_dec(node, st, function) ==
    IF get_dec(st, node.name, function) # NoDec
    THEN [node EXCEPT !.dec = get_dec(st, node.name, function)]
    ELSE node
link_to_dec_raises(node, st, function) ==
    IF get_dec(st, node.name, function) # NoDec THEN <<>>
    ELSE <<"TypeException: Name is undefined.">>

\* TypeChecker.link_expr
RECURSIVE link_expr(_, _)
link_expr(expr, st) ==
    IF expr.kind \in {"VAR_EXP", "ARR_EXP"} THEN link_to_dec(expr, st, FALSE)
    ELSE IF expr.kind = "FUN_CALL_EXP" THEN
        [link_to_dec(expr, st, TRUE) EXCEPT
            !.params = [k \in DOMAIN expr.params |-> link_expr(expr.params[k], st)]]
    ELSE IF expr.kind \in {"ADDR_EXP", "DEREF_EXP", "NEG_EXP"} THEN
        [expr EXCEPT !.exp = link_expr(expr.exp, st)]
    ELSE IF IsOpExp(expr) THEN
        [expr EXCEPT !.l_exp = link_expr(expr.l_exp, st),
                     !.r_exp = link_expr(expr.r_exp, st)]
    ELSE expr

RECURSIVE link_expr_raises(_, _), link_exprs_raises(_, _)
link_expr_raises(expr, st) ==
    IF expr.kind \in {"VAR_EXP", "ARR_EXP"} THEN link_to_dec_raises(expr, st, FALSE)
    ELSE IF expr.kind = "FUN_CALL_EXP" THEN
        link_to_dec_raises(expr, st, TRUE) \o link_exprs_raises(expr.params, st)
    ELSE IF expr.kind \in {"ADDR_EXP", "DEREF_EXP", "NEG_EXP"} THEN
        link_expr_raises(expr.exp, st)
    ELSE IF IsOpExp(expr) THEN
        link_expr_raises(expr.l_exp, st) \o link_expr_raises(expr.r_exp, st)
    ELSE <<>>
\* map(self.link_expr, expr.params)
link_exprs_raises(exprs, st) ==
    IF exprs = <<>> THEN <<>>
    ELSE link_expr_raises(Head(exprs), st) \o link_exprs_raises(Tail(exprs), st)

\* the stack of tables a compound statement's statements are linked under
\* (TypeChecker.link_comp_stmt, lines 78-83)
comp_stmt_tables(comp_stmt, st, push_table) ==
    add_decs(IF push_table THEN Append(st, EmptyTable) ELSE st, comp_stmt.local_decs)

\* TypeChecker.link_stmt, with link_if_stmt, link_while_stmt and link_comp_stmt
RECURSIVE link_stmt(_, _), link_comp_stmt(_, _, _)
link_stmt(stmt, st) ==
    IF stmt.kind \in {"EXPR_STMT", "WRITE_STMT"} THEN
        [stmt EXCEPT !.expr = link_expr(stmt.expr, st)]
    ELSE IF stmt.kind = "COMP_STMT" THEN link_comp_stmt(stmt, st, TRUE)
    ELSE IF stmt.kind = "IF_STMT" THEN
        [stmt EXCEPT !.cond = link_expr(stmt.cond, st),
                     !.true_body = link_stmt(stmt.true_body, st),
                     !.false_body = IF stmt.false_body # None
                                    THEN link_stmt(stmt.false_body, st) ELSE None]
    ELSE IF stmt.kind = "WHILE_STMT" THEN
        [stmt EXCEPT !.cond = link_expr(stmt.cond, st),
                     !.body = link_stmt(stmt.body, st)]
    ELSE IF stmt.kind = "RET_STMT" /\ stmt.val # None THEN
        [stmt EXCEPT !.val = link_expr(stmt.val, st)]
    ELSE stmt
\* TypeChecker.link_comp_stmt
link_comp_stmt(comp_stmt, st, push_table) ==
    [comp_stmt EXCEPT
        !.local_decs = mark_decs(comp_stmt.local_decs, FALSE),
        !.stmt_list = [k \in DOMAIN comp_stmt.stmt_list |->
                         link_stmt(comp_stmt.stmt_list[k],
                                   comp_stmt_tables(comp_stmt, st, push_table))]]

RECURSIVE link_stmt_raises(_, _), link_stmts_raises(_, _), link_comp_stmt_raises(_, _, _)
link_stmt_raises(stmt, st) ==
    IF stmt.kind \in {"EXPR_STMT", "WRITE_STMT"} THEN link_expr_raises(stmt.expr, st)
    ELSE IF stmt.kind = "COMP_STMT" THEN link_comp_stmt_raises(stmt, st, TRUE)
    ELSE IF stmt.kind = "IF_STMT" THEN
        link_expr_raises(stmt.cond, st) \o link_stmt_raises(stmt.true_body, st)
        \o (IF stmt.false_body # None THEN link_stmt_raises(stmt.false_body, st) ELSE <<>>)
    ELSE IF stmt.kind = "WHILE_STMT" THEN
        link_expr_raises(stmt.cond, st) \o link_stmt_raises(stmt.body, st)
    ELSE IF stmt.kind = "RET_STMT" /\ stmt.val # None THEN link_expr_raises(stmt.val, st)
    ELSE <<>>
\* map(self.link_stmt, comp_stmt.stmt_list)
link_stmts_raises(stmts, st) ==
    IF stmts = <<>> THEN <<>>
    ELSE link_stmt_raises(Head(stmts), st) \o link_stmts_raises(Tail(stmts), st)
link_comp_stmt_raises(comp_stmt, st, push_table) ==
    add_decs_raises(comp_stmt.local_decs)
    \o link_stmts_raises(comp_stmt.stmt_list, comp_stmt_tables(comp_stmt, st, push_table))

\* the stack of tables a function's body is linked under
\* (TypeChecker.link_function, lines 45-48)
function_tables(func, st) == add_decs(Append(st, EmptyTable), func.params)

\* TypeChecker.link_function
link_function(func, st) ==
    [func EXCEPT !.params = mark_decs(func.params, FALSE),
                 !.body = link_comp_stmt(func.body, function_tables(func, st), FALSE)]
link_function_raises(func, st) ==
    add_decs_raises(func.params)
    \o link_comp_stmt_raises(func.body, function_tables(func, st), FALSE)

\* the global table (TypeChecker.link_all_refs, lines 32-33)
global_tables(t) == add_decs(<<EmptyTable>>, t)

\* the loop over self.tree of link_all_refs (lines 36-38): gst is the
\* stack holding the global table
link_functions(t, gst) ==
    [k \in DOMAIN t |-> IF t[k].kind = "FUN_DEC" THEN link_function(t[k], gst) ELSE t[k]]
RECURSIVE link_functions_raises(_, _)
link_functions_raises(decs, gst) ==
    IF decs = <<>> THEN <<>>
    ELSE (IF Head(decs).kind = "FUN_DEC" THEN link_function_raises(Head(decs), gst) ELSE <<>>)
         \o link_functions_raises(Tail(decs), gst)

\* TypeChecker.link_all_refs
link_all_refs(t) == link_functions(mark_decs(t, TRUE), global_tables(t))
link_all_refs_raises(t) == add_decs_raises(t) \o link_functions_raises(t, global_tables(t))

(***************************************************************************)
(*              TYPE CHECKING (TypeChecker.check_ast and below)            *)
(*                                                                         *)
(* D is the set of the tree's declaration nodes: node.dec holds the        *)
(* line_number of the declaration the node was linked to.  As above, a     *)
(* walk is given by what it writes (typ_of: the node's typ; check_expr,    *)
(* ...: the node afterwards) and by what it raises (..._raises).           *)
(***************************************************************************)
RECURSIVE DecsOfStmt(_), DecsOfStmts(_)
\* the declarations in and below a statement
DecsOfStmt(stmt) ==
    IF stmt.kind = "COMP_STMT"
    THEN {stmt.local_decs[k] : k \in DOMAIN stmt.local_decs} \cup DecsOfStmts(stmt.stmt_list)
    ELSE IF stmt.kind = "IF_STMT"
    THEN DecsOfStmt(stmt.true_body)
         \cup (IF stmt.false_body # None THEN DecsOfStmt(stmt.false_body) ELSE {})
    ELSE IF stmt.kind = "WHILE_STMT" THEN DecsOfStmt(stmt.body)
    ELSE {}
DecsOfStmts(stmts) ==
    IF stmts = <<>> THEN {} ELSE DecsOfStmt(Head(stmts)) \cup DecsOfStmts(Tail(stmts))

\* every declaration node of the tree t
AllDecs(t) ==
    {t[k] : k \in DOMAIN t}
    \cup UNION { {t[k].params[j] : j \in DOMAIN t[k].params} \cup DecsOfStmt(t[k].body) :
                 k \in {j \in DOMAIN t : t[j].kind = "FUN_DEC"} }

\* the declaration node.dec points to
DecOf(node, D) == CHOOSE d \in D : d.line_number = node.dec
\* whether the node has the attribute dec (reading it raises AttributeError otherwise)
HasDec(node, D) == node.dec # NoDec /\ \E d \in D : d.line_number = node.dec

\* TypeChecker.expect_type_match: expected_type None is "None"; typs are
\* the .typ of tree_nodes
expect_type_match(expected_type, typs) ==
    IF \E k \in DOMAIN typs :
          typs[k] # (IF expected_type = "None" THEN typs[1] ELSE expected_type)
    THEN <<"TypeException: Mismatched types">>
    ELSE <<>>

\* the typ the checker writes into an expression node (NoTyp: none, the
\* walk raises first)
RECURSIVE typ_of(_, _)
typ_of(expr, D) ==
    CASE expr.kind \in {"VAR_EXP", "ARR_EXP", "FUN_CALL_EXP"} ->
            \* check_var_expr:287, check_arr_expr:307, check_funcall_expr:378
            IF HasDec(expr, D) THEN DecOf(expr, D).typ ELSE NoTyp
      [] expr.kind = "ADDR_EXP" ->
            \* check_addr_expr:324-325
            IF expr.exp.kind \in {"VAR_EXP", "ARR_EXP"}
            THEN address(typ_of(expr.exp, D)) ELSE NoTyp
      [] expr.kind = "DEREF_EXP" ->
            \* check_deref_expr:340-341
            IF is_pointer(typ_of(expr.exp, D)) THEN deref(typ_of(expr.exp, D)) ELSE NoTyp
      [] expr.kind \in {"READ_EXP", "INT_EXP", "COMP_EXP"} -> "INT"
      [] expr.kind = "STR_EXP" -> "STRING"
      [] expr.kind \in {"ASSIGN_EXP", "ARITH_EXP"} -> typ_of(expr.l_exp, D)
      [] expr.kind = "NEG_EXP" -> typ_of(expr.exp, D)
      [] OTHER -> NoTyp

RECURSIVE check_expr_raises(_, _), check_args_raises(_, _, _)
\* TypeChecker.check_var_expr
check_var_expr_raises(expr, D) ==
    IF ~HasDec(expr, D) THEN <<"AttributeError: dec">>
    ELSE IF DecOf(expr, D).typ = "VOID"
    THEN <<"TypeException: Cannot declare void variable.">>
    ELSE <<>>

\* TypeChecker.check_arr_expr; the void message is built from the
\* undefined name stmt (line 311)
check_arr_expr_raises(expr, D) ==
    check_expr_raises(expr.index, D)
    \o expect_type_match("INT", <<typ_of(expr.index, D)>>)
    \o (IF ~HasDec(expr, D) THEN <<"AttributeError: dec">>
        ELSE IF DecOf(expr, D).typ = "VOID" THEN <<"NameError: stmt">>
        ELSE <<>>)

\* TypeChecker.check_addr_expr
check_addr_expr_raises(expr, D) ==
    check_expr_raises(expr.exp, D)
    \o (IF expr.exp.kind \in {"VAR_EXP", "ARR_EXP"} THEN <<>>
        ELSE <<"TypeException: Can't address type">>)

\* TypeChecker.check_deref_expr
check_deref_expr_raises(expr, D) ==
    check_expr_raises(expr.exp, D)
    \o (IF is_pointer(typ_of(expr.exp, D)) THEN <<>>
        ELSE <<"TypeException: Can't dereference type">>)

\* TypeChecker.check_arg_vs_param on one argument and its parameter
check_arg_vs_param_raises(arg, param, D) ==
    check_expr_raises(arg, D) \o expect_type_match("None", <<typ_of(arg, D), param.typ>>)

\* map(self.check_arg_vs_param, expr.params, expr.dec.params), the two
\* lists being of the same length
check_args_raises(args, params, D) ==
    IF args = <<>> THEN <<>>
    ELSE check_arg_vs_param_raises(Head(args), Head(params), D)
         \o check_args_raises(Tail(args), Tail(params), D)

\* TypeChecker.check_funcall_expr
check_funcall_expr_raises(expr, D) ==
    IF ~HasDec(expr, D) THEN <<"AttributeError: dec">>
    ELSE IF DecOf(expr, D).kind # "FUN_DEC" THEN <<"AttributeError: params">>
    ELSE IF Len(DecOf(expr, D).params) # Len(expr.params)
    THEN <<"TypeException: Wrong number of arguments">>
    ELSE IF Len(DecOf(expr, D).params) > 0
    THEN check_args_raises(expr.params, DecOf(expr, D).params, D)
    ELSE <<>>

\* check_assign_expr without the comparison of the two sides
check_assign_expr_unmatched(expr, D) ==
    check_expr_raises(expr.l_exp, D) \o check_expr_raises(expr.r_exp, D)
    \o (IF expr.l_exp.kind \in {"VAR_EXP", "ARR_EXP", "DEREF_EXP"}
        THEN <<>>
        ELSE <<"TypeException: unassignable">>)

\* TypeChecker.check_assign_expr
check_assign_expr_raises(expr, D) ==
    check_expr_raises(expr.l_exp, D) \o check_expr_raises(expr.r_exp, D)
    \o (IF expr.l_exp.kind \in {"VAR_EXP", "ARR_EXP", "DEREF_EXP"}
        THEN expect_type_match("None", <<typ_of(expr.l_exp, D), typ_of(expr.r_exp, D)>>)
        ELSE <<"TypeException: unassignable">>)

\* TypeChecker.check_arith_expr and check_comp_expr
check_binary_expr_raises(expr, D) ==
    check_expr_raises(expr.l_exp, D) \o check_expr_raises(expr.r_exp, D)
    \o expect_type_match("INT", <<typ_of(expr.l_exp, D), typ_of(expr.r_exp, D)>>)

\* TypeChecker.check_neg_expr
check_neg_expr_raises(expr, D) ==
    check_expr_raises(expr.exp, D) \o expect_type_match("INT", <<typ_of(expr.exp, D)>>)

\* TypeChecker.check_expr
check_expr_raises(expr, D) ==
    CASE expr.kind = "VAR_EXP" -> check_var_expr_raises(expr, D)
      [] expr.kind = "ARR_EXP" -> check_arr_expr_raises(expr, D)
      [] expr.kind = "ADDR_EXP" -> check_addr_expr_raises(expr, D)
      [] expr.kind = "DEREF_EXP" -> check_deref_expr_raises(expr, D)
      [] expr.kind = "FUN_CALL_EXP" -> check_funcall_expr_raises(expr, D)
      [] expr.kind = "ASSIGN_EXP" -> check_assign_expr_raises(expr, D)
      [] expr.kind \in {"COMP_EXP", "ARITH_EXP"} -> check_binary_expr_raises(expr, D)
      [] expr.kind = "NEG_EXP" -> check_neg_expr_raises(expr, D)
      [] OTHER -> <<>>      \* check_read_expr, check_int_expr, check_str_expr

\* TypeChecker.check_expr: the expression with every typ written
RECURSIVE check_expr(_, _)
check_expr(expr, D) ==
    CASE expr.kind = "ARR_EXP" ->
            [expr EXCEPT !.typ = typ_of(expr, D), !.index = check_expr(expr.index, D)]
      [] expr.kind \in {"ADDR_EXP", "DEREF_EXP", "NEG_EXP"} ->
            [expr EXCEPT !.typ = typ_of(expr, D), !.exp = check_expr(expr.exp, D)]
      [] expr.kind = "FUN_CALL_EXP" ->
            [expr EXCEPT !.typ = typ_of(expr, D),
                         !.params = [k \in DOMAIN expr.params |-> check_expr(expr.params[k], D)]]
      [] IsOpExp(expr) ->
            [expr EXCEPT !.typ = typ_of(expr, D),
                         !.l_exp = check_expr(expr.l_exp, D),
                         !.r_exp = check_expr(expr.r_exp, D)]
      [] OTHER -> [expr EXCEPT !.typ = typ_of(expr, D)]

\* TypeChecker.check_ret_stmt; ret_type None is "None", which equals no BPLType
check_ret_stmt_raises(stmt, ret_type, D) ==
    IF ret_type = "VOID"
    THEN IF stmt.val # None
         THEN <<"TypeException: Cannot return value from void function.">>
         ELSE <<>>
    ELSE IF stmt.val # None
    THEN check_expr_raises(stmt.val, D)
         \o expect_type_match(ret_type, <<typ_of(stmt.val, D)>>)
    ELSE <<"TypeException: Missing return value.">>

\* the ret_type check_stmt hands to the bodies of an if and of a while
\* statement (lines 212, 214, 217): the parameter's default, None
body_ret_type(ret_type) == "None"

\* TypeChecker.check_stmt and check_comp_stmt
RECURSIVE check_stmt_raises(_, _, _), check_stmts_raises(_, _, _)
check_stmt_raises(stmt, ret_type, D) ==
    IF stmt.kind = "EXPR_STMT" THEN check_expr_raises(stmt.expr, D)
    ELSE IF stmt.kind = "COMP_STMT" THEN check_stmts_raises(stmt.stmt_list, ret_type, D)
    ELSE IF stmt.kind = "IF_STMT" THEN
        check_expr_raises(stmt.cond, D)
        \o check_stmt_raises(stmt.true_body, body_ret_type(ret_type), D)
        \o (IF stmt.false_body # None
            THEN check_stmt_raises(stmt.false_body, body_ret_type(ret_type), D)
            ELSE <<>>)
    ELSE IF stmt.kind = "WHILE_STMT" THEN
        check_expr_raises(stmt.cond, D)
        \o check_stmt_raises(stmt.body, body_ret_type(ret_type), D)
    ELSE IF stmt.kind = "RET_STMT" THEN check_ret_stmt_raises(stmt, ret_type, D)
    ELSE IF stmt.kind = "WRITE_STMT" THEN
        check_expr_raises(stmt.expr, D)
        \o (IF typ_of(stmt.expr, D) \notin {"INT", "STRING"}
            THEN <<"TypeException: Cannot write type">> ELSE <<>>)
    ELSE <<>>
\* map(lambda x: self.check_stmt(x, ret_type), stmt.stmt_list)
check_stmts_raises(stmts, ret_type, D) ==
    IF stmts = <<>> THEN <<>>
    ELSE check_stmt_raises(Head(stmts), ret_type, D)
         \o check_stmts_raises(Tail(stmts), ret_type, D)

\* TypeChecker.check_stmt: the statement with every typ written.  In a
\* VOID function the value of a return statement is not visited
\* (check_ret_stmt, lines 240-244).
RECURSIVE check_stmt(_, _, _)
check_stmt(stmt, ret_type, D) ==
    IF stmt.kind \in {"EXPR_STMT", "WRITE_STMT"} THEN
        [stmt EXCEPT !.expr = check_expr(stmt.expr, D)]
    ELSE IF stmt.kind = "COMP_STMT" THEN
        [stmt EXCEPT !.stmt_list =
            [k \in DOMAIN stmt.stmt_list |-> check_stmt(stmt.stmt_list[k], ret_type, D)]]
    ELSE IF stmt.kind = "IF_STMT" THEN
        [stmt EXCEPT !.cond = check_expr(stmt.cond, D),
                     !.true_body = check_stmt(stmt.true_body, body_ret_type(ret_type), D),
                     !.false_body = IF stmt.false_body # None
                                    THEN check_stmt(stmt.false_body, body_ret_type(ret_type), D)
                                    ELSE None]
    ELSE IF stmt.kind = "WHILE_STMT" THEN
        [stmt EXCEPT !.cond = check_expr(stmt.cond, D),
                     !.body = check_stmt(stmt.body, body_ret_type(ret_type), D)]
    ELSE IF stmt.kind = "RET_STMT" /\ stmt.val # None /\ ret_type # "VOID" THEN
        [stmt EXCEPT !.val = check_expr(stmt.val, D)]
    ELSE stmt

\* TypeChecker.check_func
check_func(func, D) == [func EXCEPT !.body = check_stmt(func.body, func.typ, D)]
check_func_raises(func, D) == check_stmt_raises(func.body, func.typ, D)

\* TypeChecker.check_ast
RECURSIVE check_decs_raises(_, _)
check_decs_raises(decs, D) ==
    IF decs = <<>> THEN <<>>
    ELSE (IF Head(decs).kind = "FUN_DEC" THEN check_func_raises(Head(decs), D) ELSE <<>>)
         \o check_decs_raises(Tail(decs), D)
check_ast(t) ==
    [k \in DOMAIN t |-> IF t[k].kind = "FUN_DEC" THEN check_func(t[k], AllDecs(t)) ELSE t[k]]
check_ast_raises(t) == check_decs_raises(t, AllDecs(t))

(***************************************************************************)
(*                    THE PROGRAMS THE CHECKER IS RUN ON                   *)
(*                                                                         *)
(* Trees the parser can build (parser.py): the left-hand side of an        *)
(* assignment is a VarExp, an ArrExp or a DerefExp, a declared array has   *)
(* its size as a string, an array parameter has size None.  Each           *)
(* declaration is on a line of its own.                                    *)
(***************************************************************************)
\* longest argument list of a generated call
MaxArgs == 2
\* largest array size written in a generated declaration
MaxSize == 2

Sizes == {SizeStr(k) : k \in 0..MaxSize}

\* ---- return statements, bare and nested (check_stmt, check_ret_stmt) ----
RetVals == {None, IntExp(2), StrExp(2)}
Wraps(r) ==
    { r,
      CompStmt(2, <<>>, <<r>>),
      IfStmt(2, IntExp(2), r, None),
      IfStmt(2, IntExp(2), WritelnStmt(2), r),
      WhileStmt(2, IntExp(2), r),
      IfStmt(2, IntExp(2), CompStmt(2, <<>>, <<r>>), None),
      WhileStmt(2, IntExp(2), CompStmt(2, <<>>, <<IfStmt(2, IntExp(2), r, None)>>)) }
RetProgs ==
    { << FunDec(1, "f", rt, <<>>, CompStmt(1, <<>>, <<w>>)) >> :
        rt \in {"INT", "STRING", "VOID"},
        w \in UNION {Wraps(RetStmt(2, v)) : v \in RetVals} }

\* ---- scopes: a global, a parameter, a local and a nested local of the
\* ---- same name, a function declared before or after its caller ----
FunF(ln) == FunDec(ln, "f", "INT", <<>>, CompStmt(ln, <<>>, <<RetStmt(ln, IntExp(ln))>>))
Uses ==
    { VarExp(6, "x"), ArrExp(6, "x", IntExp(6)), FunCallExp(6, "f", <<>>),
      ArrExp(6, "x", VarExp(6, "x")), ArrExp(6, "x", FunCallExp(6, "f", <<>>)),
      OpExp("ASSIGN_EXP", 6, "EQUAL", VarExp(6, "x"), FunCallExp(6, "f", <<>>)),
      FunCallExp(6, "f", <<VarExp(6, "x")>>) }
ScopeProgs ==
    { gx \o before
         \o << FunDec(10, "main", "INT", param,
                  CompStmt(10, local,
                      << ExpStmt(6, u),
                         CompStmt(7, inner, <<ExpStmt(6, u)>>),
                         ExpStmt(6, u) >>)) >>
         \o after :
        gx \in {<<>>, <<VarDec(1, "x", "INT")>>, <<ArrDec(1, "x", "INT", SizeStr(2))>>},
        before \in {<<>>, <<FunF(2)>>},
        after \in {<<>>, <<FunF(9)>>},
        param \in {<<>>, <<VarDec(3, "x", "STRING")>>, <<VarDec(3, "f", "INT")>>},
        local \in {<<>>, <<VarDec(4, "x", "INT_PTR")>>},
        inner \in {<<>>, <<VarDec(5, "x", "STRING")>>, <<VarDec(5, "f", "INT")>>},
        u \in Uses }

\* ---- assignments (check_assign_expr) ----
ScalarTypes == {"INT", "STRING", "INT_PTR", "STR_PTR"}
Lhs == {VarExp(5, "x"), ArrExp(5, "a", IntExp(5)), DerefExp(5, VarExp(5, "x"))}
Rhs ==
    { VarExp(5, "y"), IntExp(5), StrExp(5), ReadExp(5), VarExp(5, "a"),
      ArrExp(5, "a", IntExp(5)), AddrExp(5, VarExp(5, "y")),
      DerefExp(5, VarExp(5, "y")), NegExp(5, VarExp(5, "y")),
      OpExp("ARITH_EXP", 5, "PLUS", VarExp(5, "y"), IntExp(5)),
      OpExp("COMP_EXP", 5, "LESS", VarExp(5, "y"), IntExp(5)),
      OpExp("ASSIGN_EXP", 5, "EQUAL", VarExp(5, "y"), VarExp(5, "x")) }
AssignProgs ==
    { << FunDec(1, "main", "INT", <<>>,
            CompStmt(1, << VarDec(2, "x", t1), VarDec(3, "y", t2),
                           ArrDec(4, "a", ta, SizeStr(2)) >>,
                        << ExpStmt(5, OpExp("ASSIGN_EXP", 5, "EQUAL", l, r)) >>)) >> :
        t1 \in ScalarTypes, t2 \in ScalarTypes, ta \in {"INT", "STRING"},
        l \in Lhs, r \in Rhs }

\* ---- calls (check_funcall_expr) ----
ParamLists ==
    { <<>>, <<VarDec(2, "p", "INT")>>, <<VarDec(2, "p", "STRING")>>,
      <<VarDec(2, "p", "INT_PTR")>>, <<ArrDec(2, "p", "INT", SizeNone)>>,
      <<VarDec(2, "p", "INT"), VarDec(3, "q", "STRING")>>,
      <<VarDec(2, "p", "INT"), VarDec(3, "q", "INT")>> }
Args ==
    { VarExp(9, "x"), VarExp(9, "s"), VarExp(9, "a"), VarExp(9, "ip"),
      IntExp(9), StrExp(9), ArrExp(9, "a", IntExp(9)), AddrExp(9, VarExp(9, "x")) }
CallProgs ==
    { << FunDec(1, "f", "INT", ps, CompStmt(1, <<>>, <<RetStmt(1, IntExp(1))>>)),
         FunDec(4, "main", "INT", <<>>,
            CompStmt(4, << VarDec(5, "x", "INT"), VarDec(6, "s", "STRING"),
                           ArrDec(7, "a", "INT", SizeStr(2)), VarDec(8, "ip", "INT_PTR") >>,
                        << ExpStmt(9, FunCallExp(9, "f", as)) >>)) >> :
        ps \in ParamLists, as \in SeqsUpTo(Args, MaxArgs) }

\* ---- declarations: void variables and arrays, array sizes (add_dec) ----
DecTypes == {"INT", "VOID"}
SizedDecs(ln, name) ==
    {<<>>} \cup {<<VarDec(ln, name, t)>> : t \in DecTypes \cup {"STRING"}}
           \cup {<<ArrDec(ln, name, t, sz)>> : t \in DecTypes, sz \in Sizes}
ParamDecs(ln, name) ==
    {<<>>} \cup {<<VarDec(ln, name, t)>> : t \in DecTypes}
           \cup {<<ArrDec(ln, name, t, SizeNone)>> : t \in DecTypes}
DecProgs ==
    { g \o << FunDec(2, "main", "INT", pr,
                 CompStmt(2, lo, <<st, RetStmt(6, IntExp(6))>>)) >> :
        g \in SizedDecs(1, "g"), pr \in ParamDecs(3, "p"), lo \in SizedDecs(4, "l"),
        st \in { WritelnStmt(5), ExpStmt(5, VarExp(5, "g")), ExpStmt(5, VarExp(5, "p")),
                 ExpStmt(5, VarExp(5, "l")), ExpStmt(5, ArrExp(5, "l", IntExp(5))) } }

\* ---- names used as the other kind: the global variable g called, the
\* ---- function f read as a variable and as an array ----
KindUses ==
    { FunCallExp(6, "g", <<>>), FunCallExp(6, "f", <<>>), VarExp(6, "g"), VarExp(6, "f"),
      ArrExp(6, "f", IntExp(6)),
      OpExp("ASSIGN_EXP", 6, "EQUAL", VarExp(6, "x"), VarExp(6, "f")),
      OpExp("ASSIGN_EXP", 6, "EQUAL", VarExp(6, "x"), FunCallExp(6, "g", <<>>)) }
KindProgs ==
    { << VarDec(1, "g", "INT"), FunF(2),
         FunDec(10, "main", "INT", <<>>,
            CompStmt(10, <<VarDec(4, "x", "INT")>>, <<ExpStmt(6, u)>>)) >> :
        u \in KindUses }

Programs ==
    RetProgs \cup ScopeProgs \cup AssignProgs \cup CallProgs \cup DecProgs \cup KindProgs

(***************************************************************************)
(*                     TypeChecker.type_check, in steps                    *)
(***************************************************************************)
\* the function declarations of the tree
Functions == {tree[k] : k \in {j \in DOMAIN tree : tree[j].kind = "FUN_DEC"}}

TcIdle == tree = <<>> /\ tc_pc = "idle" /\ tc_err = ""

\* self.link_all_refs()
TcLink ==
    /\ tc_pc = "parsed"
    /\ IF link_all_refs_raises(tree) = <<>>
       THEN tree' = link_all_refs(tree) /\ tc_pc' = "linked" /\ tc_err' = ""
       ELSE tree' = tree /\ tc_pc' = "raised" /\ tc_err' = Head(link_all_refs_raises(tree))
    /\ UNCHANGED <<scanVars, cgVars, parseVars, mainVars>>

\* self.check_ast()
TcCheck ==
    /\ tc_pc = "linked"
    /\ IF check_ast_raises(tree) = <<>>
       THEN tree' = check_ast(tree) /\ tc_pc' = "checked" /\ tc_err' = ""
       ELSE tree' = tree /\ tc_pc' = "raised" /\ tc_err' = Head(check_ast_raises(tree))
    /\ UNCHANGED <<scanVars, cgVars, parseVars, mainVars>>

(***************************************************************************)
(*                           THE CODE GENERATOR                            *)
(***************************************************************************)
CgIdle ==
    /\ cg_pc = "idle" /\ cg_err = "" /\ offset = <<>> /\ locals_size = <<>>
    /\ string_dict = <<>>
    /\ prog = <<>> /\ ip = 0 /\ mem = <<>> /\ reg = <<>>

\* CodeGenerator.WORD_SIZE
WORD_SIZE == 8

\* ---- the operands the generator hands to write_instr ----
\* a Python int
PyInt(n) == [py |-> "int", n |-> n]
\* a name, written as it is (a global's or a function's)
PyName(name) == [py |-> "name", name |-> name]
\* Register(name): its text is %r<name>
Register(name) == [py |-> "Register", r |-> name]
\* Register.offset(val): the text val(%r<name>)
RegisterOffset(r, val) == [py |-> "offset", r |-> r.r, off |-> val]
\* no operand
PyNone == [py |-> "NoneType"]

\* CodeGenerator.fp, sp, acc, trash
fp == Register("rbp")
sp == Register("rsp")
acc == Register("rax")
trash == Register("r12")
\* CodeGenerator.div, rem, fmt, out
div == Register("rbx")
rem == Register("rdx")
fmt == Register("rdi")
out == Register("rsi")

\* An operand as write_instr writes it and the assembler reads it: an int
\* gets a dollar and is an immediate; any other source is written as it
\* is, so the digits of a str are an absolute memory reference.
Operand(v) ==
    CASE v.py = "int" -> [m |-> "imm", n |-> v.n]
      [] v.py = "str" -> [m |-> "abs", addr |-> v.n]
      [] v.py = "name" -> [m |-> "sym", name |-> v.name]
      [] v.py = "immediate" -> [m |-> "immsym", name |-> v.name]
      [] v.py = "Register" -> [m |-> "reg", r |-> v.r]
      [] v.py = "offset" -> [m |-> "mem", r |-> v.r, off |-> v.off]
      [] OTHER -> [m |-> "none"]

\* CodeGenerator.write_instr: one line of the assembly file
write_instr(instr, source, dest) ==
    [op |-> instr, src |-> Operand(source), dst |-> Operand(dest)]
\* CodeGenerator.write_label
write_label(label) == [op |-> "label", name |-> label]

\* ---- CodeGenerator.assign_offsets ----
\* assign_offsets_func, lines 91-96: the offsets of the parameters, in order
param_offsets(func) ==
    [k \in DOMAIN func.params |-> 2 * WORD_SIZE + (k - 1) * WORD_SIZE]

\* the loop over stmt.local_decs of assign_offsets_stmt (lines 115-124):
\* the dec_offset after it
RECURSIVE assign_offsets_decs(_, _)
assign_offsets_decs(decs, dec_offset) ==
    IF decs = <<>> THEN dec_offset
    ELSE IF Head(decs).kind = "ARR_DEC"
    THEN assign_offsets_decs(Tail(decs),
            dec_offset - WORD_SIZE * (Head(decs).size.n - 1) - WORD_SIZE)
    ELSE assign_offsets_decs(Tail(decs), dec_offset - WORD_SIZE)

\* CodeGenerator.assign_offsets_stmt: the offset it returns
RECURSIVE assign_offsets_stmt(_, _), assign_offsets_stmts(_, _)
assign_offsets_stmt(stmt, dec_offset) ==
    IF stmt.kind = "COMP_STMT"
    THEN assign_offsets_stmts(stmt.stmt_list, assign_offsets_decs(stmt.local_decs, dec_offset))
    ELSE IF stmt.kind = "IF_STMT"
    THEN IF stmt.false_body # None
         THEN assign_offsets_stmt(stmt.false_body,
                                  assign_offsets_stmt(stmt.true_body, dec_offset))
         ELSE assign_offsets_stmt(stmt.true_body, dec_offset)
    ELSE IF stmt.kind = "WHILE_STMT" THEN assign_offsets_stmt(stmt.body, dec_offset)
    ELSE dec_offset
assign_offsets_stmts(stmts, dec_offset) ==
    IF stmts = <<>> THEN dec_offset
    ELSE assign_offsets_stmts(Tail(stmts), assign_offsets_stmt(Head(stmts), dec_offset))

\* the local_dec.offset the loop over stmt.local_decs writes: pairs of a
\* declaration's line and its offset
RECURSIVE decs_offsets(_, _)
decs_offsets(decs, dec_offset) ==
    IF decs = <<>> THEN {}
    ELSE IF Head(decs).kind = "ARR_DEC"
    THEN { <<Head(decs).line_number, dec_offset - WORD_SIZE * (Head(decs).size.n - 1)>> }
         \cup decs_offsets(Tail(decs),
                 dec_offset - WORD_SIZE * (Head(decs).size.n - 1) - WORD_SIZE)
    ELSE { <<Head(decs).line_number, dec_offset>> }
         \cup decs_offsets(Tail(decs), dec_offset - WORD_SIZE)

\* CodeGenerator.assign_offsets_stmt: the offsets it writes
RECURSIVE stmt_offsets(_, _), stmts_offsets(_, _)
stmt_offsets(stmt, dec_offset) ==
    IF stmt.kind = "COMP_STMT"
    THEN decs_offsets(stmt.local_decs, dec_offset)
         \cup stmts_offsets(stmt.stmt_list, assign_offsets_decs(stmt.local_decs, dec_offset))
    ELSE IF stmt.kind = "IF_STMT"
    THEN stmt_offsets(stmt.true_body, dec_offset)
         \cup (IF stmt.false_body # None
               THEN stmt_offsets(stmt.false_body,
                                 assign_offsets_stmt(stmt.true_body, dec_offset))
               ELSE {})
    ELSE IF stmt.kind = "WHILE_STMT" THEN stmt_offsets(stmt.body, dec_offset)
    ELSE {}
stmts_offsets(stmts, dec_offset) ==
    IF stmts = <<>> THEN {}
    ELSE stmt_offsets(Head(stmts), dec_offset)
         \cup stmts_offsets(Tail(stmts), assign_offsets_stmt(Head(stmts), dec_offset))

\* local_dec.size - 1 (line 117) on the str the parser left as the size
RECURSIVE assign_offsets_stmt_raises(_), assign_offsets_stmts_raises(_)
assign_offsets_stmt_raises(stmt) ==
    IF stmt.kind = "COMP_STMT"
    THEN (IF \E k \in DOMAIN stmt.local_decs :
                stmt.local_decs[k].kind = "ARR_DEC" /\ stmt.local_decs[k].size.py # "int"
          THEN <<"TypeError: unsupported operand type(s) for -">> ELSE <<>>)
         \o assign_offsets_stmts_raises(stmt.stmt_list)
    ELSE IF stmt.kind = "IF_STMT"
    THEN assign_offsets_stmt_raises(stmt.true_body)
         \o (IF stmt.false_body # None THEN assign_offsets_stmt_raises(stmt.false_body)
             ELSE <<>>)
    ELSE IF stmt.kind = "WHILE_STMT" THEN assign_offsets_stmt_raises(stmt.body)
    ELSE <<>>
assign_offsets_stmts_raises(stmts) ==
    IF stmts = <<>> THEN <<>>
    ELSE assign_offsets_stmt_raises(Head(stmts)) \o assign_offsets_stmts_raises(Tail(stmts))

\* CodeGenerator.assign_offsets_func: the offsets it writes
assign_offsets_func(func) ==
    { <<func.params[k].line_number, param_offsets(func)[k]>> : k \in DOMAIN func.params }
    \cup stmt_offsets(func.body, -WORD_SIZE)
\* CodeGenerator.assign_offsets_func: func.locals_size (line 102)
func_locals_size(func) == -(assign_offsets_stmt(func.body, -WORD_SIZE)) - WORD_SIZE

\* CodeGenerator.assign_offsets: dec.offset of every parameter and local
assign_offsets(t) ==
    LET pairs == UNION {assign_offsets_func(t[k]) :
                           k \in {j \in DOMAIN t : t[j].kind = "FUN_DEC"}}
    IN  [ln \in {pr[1] : pr \in pairs} |-> CHOOSE o \in {pr[2] : pr \in pairs} : <<ln, o>> \in pairs]
\* func.locals_size of every function
assign_locals_sizes(t) ==
    LET fs == {t[k] : k \in {j \in DOMAIN t : t[j].kind = "FUN_DEC"}}
    IN  [ln \in {f.line_number : f \in fs} |->
            func_locals_size(CHOOSE f \in fs : f.line_number = ln)]
RECURSIVE assign_offsets_raises(_)
assign_offsets_raises(decs) ==
    IF decs = <<>> THEN <<>>
    ELSE (IF Head(decs).kind = "FUN_DEC" THEN assign_offsets_stmt_raises(Head(decs).body)
          ELSE <<>>)
         \o assign_offsets_raises(Tail(decs))

\* ---- CodeGenerator.gen_all: the instructions written ----
\* reversed(args)
Reverse(seq) == [k \in 1..Len(seq) |-> seq[Len(seq) + 1 - k]]

\* func.ret_label (line 210)
ret_label(func) == <<".", func.name, "_ret">>

\* CodeGenerator.gen_var_addr
gen_var_addr(expr, D, offs) ==
    IF DecOf(expr, D).is_global
    THEN <<write_instr("lea", PyName(expr.name), trash)>>
    ELSE <<write_instr("lea", RegisterOffset(fp, offs[expr.dec]), trash)>>

\* CodeGenerator.gen_arr_base_addr
gen_arr_base_addr(expr, D, offs) ==
    IF DecOf(expr, D).is_global
    THEN <<write_instr("lea", PyName(expr.name), trash)>>
    ELSE IF offs[expr.dec] > 0
    THEN <<write_instr("mov", RegisterOffset(fp, offs[expr.dec]), trash)>>
    ELSE <<write_instr("lea", RegisterOffset(fp, offs[expr.dec]), trash)>>

\* CodeGenerator.gen_var_expr
gen_var_expr(expr, D, offs) ==
    IF DecOf(expr, D).kind = "VAR_DEC"
    THEN gen_var_addr(expr, D, offs) \o <<write_instr("mov", RegisterOffset(trash, 0), acc)>>
    ELSE IF DecOf(expr, D).kind = "ARR_DEC"
    THEN gen_arr_base_addr(expr, D, offs) \o <<write_instr("mov", trash, acc)>>
    ELSE <<>>

\* ---- labels ----
\* the text of the numbers the two label counters give (itertools.count)
Digits == <<"0", "1", "2", "3", "4", "5", "6", "7", "8", "9">>
\* CodeGenerator.new_control_label, the count being n
new_control_label(n) == <<".L", Digits[n + 1]>>
\* CodeGenerator.new_string_label, the count being n
new_string_label(n) == <<".S", Digits[n + 1]>>
\* Label.immediate(): the text $<name>
LabelImmediate(name) == [py |-> "immediate", name |-> name]

\* ---- CodeGenerator.build_string_dict ----
\* the val of the STR_EXP nodes build_string_dict reaches, in the order it
\* reaches them: it goes through statements, the right of an assignment,
\* the arguments of a call and the operand of & and *, and nowhere else
RECURSIVE build_string_dict(_), build_string_dict_map(_)
build_string_dict(node) ==
    CASE node.kind = "STR_EXP" -> <<node.val>>
      [] node.kind = "FUN_DEC" -> build_string_dict(node.body)
      [] node.kind = "COMP_STMT" -> build_string_dict_map(node.stmt_list)
      [] node.kind = "EXPR_STMT" -> build_string_dict(node.expr)
      [] node.kind = "IF_STMT" ->
            build_string_dict(node.true_body)
            \o (IF node.false_body # None THEN build_string_dict(node.false_body) ELSE <<>>)
      [] node.kind = "WHILE_STMT" -> build_string_dict(node.body)
      [] node.kind = "RET_STMT" ->
            IF node.val # None THEN build_string_dict(node.val) ELSE <<>>
      [] node.kind = "WRITE_STMT" -> build_string_dict(node.expr)
      [] node.kind = "ASSIGN_EXP" -> build_string_dict(node.r_exp)
      [] node.kind = "FUN_CALL_EXP" -> build_string_dict_map(node.params)
      [] node.kind \in {"ADDR_EXP", "DEREF_EXP"} -> build_string_dict(node.exp)
      [] OTHER -> <<>>
build_string_dict_map(nodes) ==
    IF nodes = <<>> THEN <<>>
    ELSE build_string_dict(Head(nodes)) \o build_string_dict_map(Tail(nodes))

\* build_string_dict(node.val) of a return without a value (line 160) is
\* build_string_dict(None), which starts over from self.tree (lines
\* 141-142) and comes back to the same return: the recursion has no end
RECURSIVE build_string_dict_raises(_), build_string_dict_map_raises(_)
build_string_dict_raises(node) ==
    CASE node.kind = "FUN_DEC" -> build_string_dict_raises(node.body)
      [] node.kind = "COMP_STMT" -> build_string_dict_map_raises(node.stmt_list)
      [] node.kind = "IF_STMT" ->
            build_string_dict_raises(node.true_body)
            \o (IF node.false_body # None THEN build_string_dict_raises(node.false_body)
                ELSE <<>>)
      [] node.kind = "WHILE_STMT" -> build_string_dict_raises(node.body)
      [] node.kind = "RET_STMT" ->
            IF node.val = None
            THEN <<"RuntimeError: maximum recursion depth exceeded">>
            ELSE <<>>
      [] OTHER -> <<>>
build_string_dict_map_raises(nodes) ==
    IF nodes = <<>> THEN <<>>
    ELSE build_string_dict_raises(Head(nodes)) \o build_string_dict_map_raises(Tail(nodes))

\* self.string_dict after build_string_dict(): each val reached has the
\* number the counter gave it the last time it was reached (line 144)
string_dict_of(t) ==
    LET vals == build_string_dict_map(t)
    IN  [v \in {vals[k] : k \in DOMAIN vals} |->
            (CHOOSE k \in DOMAIN vals :
                vals[k] = v /\ \A j \in DOMAIN vals : vals[j] = v => j <= k) - 1]

\* ---- CodeGenerator.gen_expr and below: the instructions written ----
\* D is the set of the tree's declarations, offs their offsets, sd
\* self.string_dict and n the count of control labels taken so far.

\* how many control labels the code of an expression takes: two for each
\* comparison (gen_comp_expr, lines 450-451); none is taken under &,
\* where gen_addr_expr raises
RECURSIVE control_labels(_), control_labels_map(_)
control_labels(expr) ==
    CASE expr.kind = "COMP_EXP" ->
            control_labels(expr.l_exp) + control_labels(expr.r_exp) + 2
      [] expr.kind = "ARITH_EXP" -> control_labels(expr.l_exp) + control_labels(expr.r_exp)
      [] expr.kind = "ASSIGN_EXP" ->
            control_labels(expr.r_exp)
            + (IF expr.l_exp.kind = "ARR_EXP" THEN control_labels(expr.l_exp.index)
               ELSE IF expr.l_exp.kind = "DEREF_EXP" THEN control_labels(expr.l_exp.exp)
               ELSE 0)
      [] expr.kind \in {"NEG_EXP", "DEREF_EXP"} -> control_labels(expr.exp)
      [] expr.kind = "ARR_EXP" -> control_labels(expr.index)
      [] expr.kind = "FUN_CALL_EXP" -> control_labels_map(expr.params)
      [] OTHER -> 0
control_labels_map(exprs) ==
    IF exprs = <<>> THEN 0
    ELSE control_labels(Head(exprs)) + control_labels_map(Tail(exprs))

\* CodeGenerator.gen_arith_expr
gen_arith_expr(expr) ==
    CASE expr.op = "PLUS" -> <<write_instr("add", RegisterOffset(sp, 0), acc)>>
      [] expr.op = "MINUS" ->
            << write_instr("sub", acc, RegisterOffset(sp, 0)),
               write_instr("mov", RegisterOffset(sp, 0), acc) >>
      [] expr.op = "STAR" -> <<write_instr("imul", RegisterOffset(sp, 0), acc)>>
      [] expr.op \in {"SLASH", "MOD"} ->
            << write_instr("mov", acc, div),
               write_instr("mov", RegisterOffset(sp, 0), acc),
               write_instr("cqto", PyNone, PyNone),
               write_instr("idiv", div, PyNone) >>
            \o (IF expr.op = "MOD" THEN <<write_instr("mov", rem, acc)>> ELSE <<>>)
      [] OTHER -> <<>>

\* the jump gen_comp_expr picks for an operator (lines 452-463)
jump_instr(op) ==
    CASE op = "BOOLEQ" -> "jne"
      [] op = "NEQUAL" -> "je"
      [] op = "LESS" -> "jge"
      [] op = "LEQUAL" -> "jg"
      [] op = "GREATER" -> "jle"
      [] op = "GEQUAL" -> "jl"

\* CodeGenerator.gen_comp_expr: false_label is label n, continue_label n + 1
gen_comp_expr(expr, n) ==
    << write_instr("cmp", acc, RegisterOffset(sp, 0)),
       write_instr(jump_instr(expr.op), PyName(new_control_label(n)), PyNone),
       write_instr("mov", PyInt(1), acc),
       write_instr("jmp", PyName(new_control_label(n + 1)), PyNone),
       write_label(new_control_label(n)),
       write_instr("mov", PyInt(0), acc),
       write_label(new_control_label(n + 1)) >>

\* CodeGenerator.gen_read_expr
gen_read_expr ==
    << write_instr("sub", PyInt(40 * WORD_SIZE), sp),
       write_instr("lea", RegisterOffset(sp, 24 * WORD_SIZE), out),
       write_instr("mov", LabelImmediate(<<".ReadIntString">>), fmt),
       write_instr("call", PyName("scanf"), PyNone),
       write_instr("mov", RegisterOffset(sp, 24 * WORD_SIZE), acc),
       write_instr("add", PyInt(40 * WORD_SIZE), sp) >>

RECURSIVE gen_expr(_, _, _, _, _), gen_push_args(_, _, _, _, _)
\* the loop of gen_funcall_expr (lines 333-335) over the arguments args,
\* taken in the order given
gen_push_args(args, D, offs, sd, n) ==
    IF args = <<>> THEN <<>>
    ELSE gen_expr(Head(args), D, offs, sd, n) \o <<write_instr("push", acc, PyNone)>>
         \o gen_push_args(Tail(args), D, offs, sd, n + control_labels(Head(args)))

\* gen_funcall_expr pushing the arguments first to last
gen_funcall_expr_in_order(expr, D, offs, sd, n) ==
    gen_push_args(expr.params, D, offs, sd, n)
    \o << write_instr("push", fp, PyNone),
          write_instr("call", PyName(expr.name), PyNone),
          write_instr("pop", fp, PyNone),
          write_instr("add", PyInt(Len(expr.params) * WORD_SIZE), sp) >>

\* CodeGenerator.gen_funcall_expr
gen_funcall_expr(expr, D, offs, sd, n) ==
    gen_push_args(Reverse(expr.params), D, offs, sd, n)
    \o << write_instr("push", fp, PyNone),
          write_instr("call", PyName(expr.name), PyNone),
          write_instr("pop", fp, PyNone),
          write_instr("add", PyInt(Len(expr.params) * WORD_SIZE), sp) >>

\* CodeGenerator.gen_arr_addr
gen_arr_addr(expr, D, offs, sd, n) ==
    gen_expr(expr.index, D, offs, sd, n)
    \o <<write_instr("imul", PyInt(WORD_SIZE), acc)>>
    \o gen_arr_base_addr(expr, D, offs)
    \o <<write_instr("add", acc, trash)>>

\* CodeGenerator.gen_l_value
gen_l_value(expr, D, offs, sd, n) ==
    CASE expr.kind = "VAR_EXP" -> gen_var_addr(expr, D, offs)
      [] expr.kind = "ARR_EXP" -> gen_arr_addr(expr, D, offs, sd, n)
      [] expr.kind = "DEREF_EXP" ->
            gen_expr(expr.exp, D, offs, sd, n) \o <<write_instr("mov", acc, trash)>>
      [] OTHER -> <<>>

\* CodeGenerator.gen_assign_expr
gen_assign_expr(expr, D, offs, sd, n) ==
    gen_expr(expr.r_exp, D, offs, sd, n)
    \o <<write_instr("push", acc, PyNone)>>
    \o gen_l_value(expr.l_exp, D, offs, sd, n + control_labels(expr.r_exp))
    \o << write_instr("pop", acc, PyNone),
          write_instr("mov", acc, RegisterOffset(trash, 0)) >>

\* gen_binary_expr evaluating the right operand first
gen_binary_expr_right_first(expr, D, offs, sd, n) ==
    gen_expr(expr.r_exp, D, offs, sd, n)
    \o <<write_instr("push", acc, PyNone)>>
    \o gen_expr(expr.l_exp, D, offs, sd, n + control_labels(expr.r_exp))
    \o (IF expr.kind = "ARITH_EXP" THEN gen_arith_expr(expr)
        ELSE gen_comp_expr(expr, n + control_labels(expr.l_exp) + control_labels(expr.r_exp)))
    \o <<write_instr("add", PyInt(WORD_SIZE), sp)>>

\* CodeGenerator.gen_binary_expr
gen_binary_expr(expr, D, offs, sd, n) ==
    gen_expr(expr.l_exp, D, offs, sd, n)
    \o <<write_instr("push", acc, PyNone)>>
    \o gen_expr(expr.r_exp, D, offs, sd, n + control_labels(expr.l_exp))
    \o (IF expr.kind = "ARITH_EXP" THEN gen_arith_expr(expr)
        ELSE gen_comp_expr(expr, n + control_labels(expr.l_exp) + control_labels(expr.r_exp)))
    \o <<write_instr("add", PyInt(WORD_SIZE), sp)>>

\* CodeGenerator.gen_neg_expr
gen_neg_expr(expr, D, offs, sd, n) ==
    gen_expr(expr.exp, D, offs, sd, n)
    \o << write_instr("push", acc, PyNone),
          write_instr("mov", PyInt(0), acc),
          write_instr("sub", RegisterOffset(sp, 0), acc),
          write_instr("add", PyInt(WORD_SIZE), sp) >>

\* CodeGenerator.gen_expr.  gen_addr_expr (line 318) reads self.expr,
\* which no CodeGenerator has: it raises before it writes anything.
gen_expr(expr, D, offs, sd, n) ==
    CASE expr.kind = "VAR_EXP" -> gen_var_expr(expr, D, offs)
      [] expr.kind = "ARR_EXP" ->
            gen_arr_addr(expr, D, offs, sd, n)
            \o <<write_instr("mov", RegisterOffset(trash, 0), acc)>>
      [] expr.kind = "ADDR_EXP" -> <<>>
      [] expr.kind = "DEREF_EXP" ->
            gen_expr(expr.exp, D, offs, sd, n)
            \o <<write_instr("mov", RegisterOffset(acc, 0), acc)>>
      [] expr.kind = "FUN_CALL_EXP" -> gen_funcall_expr(expr, D, offs, sd, n)
      [] expr.kind = "READ_EXP" -> gen_read_expr
      [] expr.kind = "ASSIGN_EXP" -> gen_assign_expr(expr, D, offs, sd, n)
      [] expr.kind \in {"ARITH_EXP", "COMP_EXP"} -> gen_binary_expr(expr, D, offs, sd, n)
      [] expr.kind = "NEG_EXP" -> gen_neg_expr(expr, D, offs, sd, n)
      [] expr.kind = "INT_EXP" -> <<write_instr("mov", expr.val, acc)>>
      [] expr.kind = "STR_EXP" ->
            IF expr.val \in DOMAIN sd
            THEN <<write_instr("mov", LabelImmediate(new_string_label(sd[expr.val])), acc)>>
            ELSE <<>>
      [] OTHER -> <<>>

\* what gen_expr raises: AttributeError under & (line 318), KeyError for a
\* string literal that is not in self.string_dict (line 300)
RECURSIVE gen_expr_raises(_, _), gen_exprs_raises(_, _)
gen_expr_raises(expr, sd) ==
    CASE expr.kind = "ARR_EXP" -> gen_expr_raises(expr.index, sd)
      [] expr.kind = "ADDR_EXP" ->
            <<"AttributeError: CodeGenerator instance has no attribute 'expr'">>
      [] expr.kind \in {"DEREF_EXP", "NEG_EXP"} -> gen_expr_raises(expr.exp, sd)
      [] expr.kind = "FUN_CALL_EXP" ->
            \* params is None when the call has no argument (Parser.args,
            \* lines 608-613), written <<>> here; line 332 iterates it
            IF expr.params = <<>>
            THEN <<"TypeError: 'NoneType' object is not iterable">>
            ELSE gen_exprs_raises(Reverse(expr.params), sd)
      [] expr.kind = "ASSIGN_EXP" ->
            gen_expr_raises(expr.r_exp, sd)
            \o (IF expr.l_exp.kind = "ARR_EXP" THEN gen_expr_raises(expr.l_exp.index, sd)
                ELSE IF expr.l_exp.kind = "DEREF_EXP" THEN gen_expr_raises(expr.l_exp.exp, sd)
                ELSE <<>>)
      [] expr.kind \in {"ARITH_EXP", "COMP_EXP"} ->
            gen_expr_raises(expr.l_exp, sd) \o gen_expr_raises(expr.r_exp, sd)
      [] expr.kind = "STR_EXP" ->
            IF expr.val \in DOMAIN sd THEN <<>> ELSE <<"KeyError">>
      [] OTHER -> <<>>
gen_exprs_raises(exprs, sd) ==
    IF exprs = <<>> THEN <<>>
    ELSE gen_expr_raises(Head(exprs), sd) \o gen_exprs_raises(Tail(exprs), sd)

\* ---- CodeGenerator.gen_stmt and below ----
\* how many control labels the code of a statement takes: two for an if
\* and two for a while, besides those of their expressions
RECURSIVE stmt_control_labels(_), stmts_control_labels(_)
stmt_control_labels(stmt) ==
    CASE stmt.kind = "COMP_STMT" -> stmts_control_labels(stmt.stmt_list)
      [] stmt.kind = "WRITE_STMT" -> control_labels(stmt.expr)
      [] stmt.kind = "IF_STMT" ->
            control_labels(stmt.cond) + 2 + stmt_control_labels(stmt.true_body)
            + (IF stmt.false_body # None THEN stmt_control_labels(stmt.false_body) ELSE 0)
      [] stmt.kind = "WHILE_STMT" ->
            2 + control_labels(stmt.cond) + stmt_control_labels(stmt.body)
      [] stmt.kind = "RET_STMT" -> IF stmt.val # None THEN control_labels(stmt.val) ELSE 0
      [] stmt.kind = "EXPR_STMT" -> control_labels(stmt.expr)
      [] OTHER -> 0
stmts_control_labels(stmts) ==
    IF stmts = <<>> THEN 0
    ELSE stmt_control_labels(Head(stmts)) + stmts_control_labels(Tail(stmts))

\* CodeGenerator.gen_write_stmt
gen_write_stmt(stmt, D, offs, sd, n) ==
    (IF stmt.kind = "WRITE_STMT"
     THEN gen_expr(stmt.expr, D, offs, sd, n)
          \o <<write_instr("mov", acc, out)>>
          \o (IF stmt.expr.typ = "INT"
              THEN <<write_instr("mov", LabelImmediate(<<".WriteIntString">>), fmt)>>
              ELSE IF stmt.expr.typ = "STRING"
              THEN <<write_instr("mov", LabelImmediate(<<".WriteStringString">>), fmt)>>
              ELSE <<>>)
     ELSE <<write_instr("mov", LabelImmediate(<<".WritelnString">>), fmt)>>)
    \o << write_instr("mov", PyInt(0), acc),
          write_instr("call", PyName("printf"), PyNone) >>

\* CodeGenerator.gen_stmt, with gen_if_stmt and gen_while_stmt
RECURSIVE gen_stmt(_, _, _, _, _, _), gen_stmts(_, _, _, _, _, _)
gen_stmt(stmt, func, D, offs, sd, n) ==
    CASE stmt.kind = "COMP_STMT" -> gen_stmts(stmt.stmt_list, func, D, offs, sd, n)
      [] stmt.kind \in {"WRITE_STMT", "WRITELN_STMT"} -> gen_write_stmt(stmt, D, offs, sd, n)
      [] stmt.kind = "IF_STMT" ->
            \* true_label is label n + c, continue_label n + c + 1
            LET c == control_labels(stmt.cond)
            IN  gen_expr(stmt.cond, D, offs, sd, n)
                \o << write_instr("cmp", PyInt(0), acc),
                      write_instr("jne", PyName(new_control_label(n + c)), PyNone) >>
                \o (IF stmt.false_body # None
                    THEN gen_stmt(stmt.false_body, func, D, offs, sd, n + c + 2)
                    ELSE <<>>)
                \o << write_instr("jmp", PyName(new_control_label(n + c + 1)), PyNone),
                      write_label(new_control_label(n + c)) >>
                \o gen_stmt(stmt.true_body, func, D, offs, sd,
                            n + c + 2 + (IF stmt.false_body # None
                                         THEN stmt_control_labels(stmt.false_body) ELSE 0))
                \o <<write_label(new_control_label(n + c + 1))>>
      [] stmt.kind = "WHILE_STMT" ->
            \* cond_label is label n, continue_label n + 1
            <<write_label(new_control_label(n))>>
            \o gen_expr(stmt.cond, D, offs, sd, n + 2)
            \o << write_instr("cmp", PyInt(0), acc),
                  write_instr("je", PyName(new_control_label(n + 1)), PyNone) >>
            \o gen_stmt(stmt.body, func, D, offs, sd, n + 2 + control_labels(stmt.cond))
            \o << write_instr("jmp", PyName(new_control_label(n)), PyNone),
                  write_label(new_control_label(n + 1)) >>
      [] stmt.kind = "RET_STMT" ->
            (IF stmt.val # None THEN gen_expr(stmt.val, D, offs, sd, n) ELSE <<>>)
            \o <<write_instr("jmp", PyName(ret_label(func)), PyNone)>>
      [] stmt.kind = "EXPR_STMT" -> gen_expr(stmt.expr, D, offs, sd, n)
      [] OTHER -> <<>>
gen_stmts(stmts, func, D, offs, sd, n) ==
    IF stmts = <<>> THEN <<>>
    ELSE gen_stmt(Head(stmts), func, D, offs, sd, n)
         \o gen_stmts(Tail(stmts), func, D, offs, sd, n + stmt_control_labels(Head(stmts)))

\* what gen_stmt raises, the false body of an if being written before the
\* true one; gen_expr(None) of a return without a value raises too
RECURSIVE gen_stmt_raises(_, _), gen_stmts_raises(_, _)
gen_stmt_raises(stmt, sd) ==
    CASE stmt.kind = "COMP_STMT" -> gen_stmts_raises(stmt.stmt_list, sd)
      [] stmt.kind = "WRITE_STMT" -> gen_expr_raises(stmt.expr, sd)
      [] stmt.kind = "IF_STMT" ->
            gen_expr_raises(stmt.cond, sd)
            \o (IF stmt.false_body # None THEN gen_stmt_raises(stmt.false_body, sd) ELSE <<>>)
            \o gen_stmt_raises(stmt.true_body, sd)
      [] stmt.kind = "WHILE_STMT" ->
            gen_expr_raises(stmt.cond, sd) \o gen_stmt_raises(stmt.body, sd)
      [] stmt.kind = "RET_STMT" ->
            IF stmt.val # None THEN gen_expr_raises(stmt.val, sd)
            ELSE <<"AttributeError: 'NoneType' object has no attribute 'kind'">>
      [] stmt.kind = "EXPR_STMT" -> gen_expr_raises(stmt.expr, sd)
      [] OTHER -> <<>>
gen_stmts_raises(stmts, sd) ==
    IF stmts = <<>> THEN <<>>
    ELSE gen_stmt_raises(Head(stmts), sd) \o gen_stmts_raises(Tail(stmts), sd)

\* gen_func without the add that frees the locals before ret
gen_func_keeps_locals(func, D, offs, sd, lsize, n) ==
    << write_label(<<func.name>>),
       write_instr("mov", sp, fp),
       write_instr("sub", PyInt(lsize), sp) >>
    \o gen_stmt(func.body, func, D, offs, sd, n)
    \o << write_label(ret_label(func)),
          write_instr("add", PyInt(0), sp),
          write_instr("ret", PyNone, PyNone) >>
\* CodeGenerator.gen_func; lsize is func.locals_size
gen_func(func, D, offs, sd, lsize, n) ==
    << write_label(<<func.name>>),
       write_instr("mov", sp, fp),
       write_instr("sub", PyInt(lsize), sp) >>
    \o gen_stmt(func.body, func, D, offs, sd, n)
    \o << write_label(ret_label(func)),
          write_instr("add", PyInt(lsize), sp),
          write_instr("ret", PyNone, PyNone) >>

\* the loop over self.tree of gen_all (lines 178-180)
RECURSIVE gen_funcs(_, _, _, _, _, _)
gen_funcs(decs, D, offs, sd, lsizes, n) ==
    IF decs = <<>> THEN <<>>
    ELSE IF Head(decs).kind = "FUN_DEC"
    THEN gen_func(Head(decs), D, offs, sd, lsizes[Head(decs).line_number], n)
         \o gen_funcs(Tail(decs), D, offs, sd, lsizes,
                      n + stmt_control_labels(Head(decs).body))
    ELSE gen_funcs(Tail(decs), D, offs, sd, lsizes, n)
RECURSIVE gen_funcs_raises(_, _)
gen_funcs_raises(decs, sd) ==
    IF decs = <<>> THEN <<>>
    ELSE (IF Head(decs).kind = "FUN_DEC" THEN gen_stmt_raises(Head(decs).body, sd)
          ELSE <<>>)
         \o gen_funcs_raises(Tail(decs), sd)

\* what gen_all raises: in assign_offsets, then in gen_header's
\* build_string_dict, then in the loop over the functions
gen_all_raises(t) ==
    IF assign_offsets_raises(t) # <<>> THEN assign_offsets_raises(t)
    ELSE IF build_string_dict_map_raises(t) # <<>> THEN build_string_dict_map_raises(t)
    ELSE gen_funcs_raises(t, string_dict_of(t))

\* CodeGenerator.gen_all: assign_offsets, gen_header (which builds
\* self.string_dict; it writes directives, no instruction), then the code
\* of every function.  An exception leaves what was set before it and no
\* program to assemble.
CgGenAll ==
    /\ tc_pc = "checked" /\ cg_pc = "idle"
    /\ IF gen_all_raises(tree) # <<>>
       THEN /\ cg_pc' = "raised" /\ cg_err' = Head(gen_all_raises(tree))
            /\ prog' = prog
            /\ IF assign_offsets_raises(tree) # <<>>
               THEN UNCHANGED <<offset, locals_size, string_dict>>
               ELSE /\ offset' = assign_offsets(tree)
                    /\ locals_size' = assign_locals_sizes(tree)
                    /\ IF build_string_dict_map_raises(tree) # <<>>
                       THEN string_dict' = string_dict
                       ELSE string_dict' = string_dict_of(tree)
       ELSE /\ offset' = assign_offsets(tree)
            /\ locals_size' = assign_locals_sizes(tree)
            /\ string_dict' = string_dict_of(tree)
            /\ prog' = gen_funcs(tree, AllDecs(tree), assign_offsets(tree),
                                 string_dict_of(tree), assign_locals_sizes(tree), 0)
            /\ cg_pc' = "emitted" /\ cg_err' = ""
    /\ UNCHANGED <<ip, mem, reg, scanVars, tcVars, parseVars, mainVars>>

\* ---- the machine ----
\* the stack: StackWords words below StackTop, where main is entered; it lies
\* above the small numbers, which are no mapped addresses
StackTop == 512
StackWords == 48
\* where the first global is allocated, each aligned to 64 (.comm name, 8, 64)
GlobalBase == 1024
\* the values a variable of main or a global may hold when main starts
MaxVal == 2
Values == 1..MaxVal

StackAddrs == {StackTop - WORD_SIZE * k : k \in 0..StackWords}
\* the address of the global declared as the k-th declaration of the tree
GlobalAddrOf(k) == GlobalBase + 64 * k
GlobalAddrs == {GlobalAddrOf(k) : k \in {j \in DOMAIN tree : tree[j].kind # "FUN_DEC"}}
GlobalAddr(name) ==
    GlobalAddrOf(CHOOSE k \in DOMAIN tree : tree[k].kind # "FUN_DEC" /\ tree[k].name = name)

\* the line after the label
LabelIndex(label) ==
    (CHOOSE k \in DOMAIN prog : prog[k].op = "label" /\ prog[k].name = label) + 1

\* the function main, and the cells of its local variables once it has
\* set its frame pointer to StackTop
Main == CHOOSE f \in Functions : f.name = "main"
MainCells == {StackTop + offset[Main.body.local_decs[k].line_number] :
                 k \in DOMAIN Main.body.local_decs}

\* the first instruction of the body of a function that is called: the
\* one after the two of the prologue
CalleeBodies == {LabelIndex(<<f.name>>) + 2 : f \in {g \in Functions : g.name # "main"}}

\* the program is loaded and main is entered; its variables hold any values
CgLoad ==
    /\ cg_pc = "emitted"
    /\ \E vals \in [GlobalAddrs \cup MainCells -> Values] :
          mem' = [a \in StackAddrs \cup GlobalAddrs |->
                     IF a \in DOMAIN vals THEN vals[a] ELSE 0]
    /\ reg' = [rsp |-> StackTop, rbp |-> 0, rax |-> 0, r12 |-> 0, rbx |-> 0, rdx |-> 0,
               rdi |-> 0, rsi |-> 0, flags |-> 0]
    /\ ip' = LabelIndex(<<"main">>)
    /\ cg_pc' = "running"
    /\ UNCHANGED <<cg_err, offset, locals_size, string_dict, prog, scanVars, tcVars, parseVars, mainVars>>

\* the address an operand names, and the value an operand has
Addr(o) ==
    CASE o.m = "mem" -> reg[o.r] + o.off
      [] o.m = "abs" -> o.addr
      [] o.m = "sym" -> GlobalAddr(o.name)
IsMemory(o) == o.m \in {"mem", "abs", "sym"}
Mapped(o) == IsMemory(o) => Addr(o) \in DOMAIN mem
\* where the string of label .S<k> is
StringBase == 2048
StringAddr(name) ==
    IF name[1] = ".S"
    THEN StringBase + WORD_SIZE * (CHOOSE k \in 1..Len(Digits) : Digits[k] = name[2])
    ELSE StringBase
Val(o) ==
    CASE o.m = "reg" -> reg[o.r]
      [] o.m = "imm" -> o.n
      [] o.m = "immsym" -> StringAddr(o.name)
      [] OTHER -> mem[Addr(o)]
\* the registers and the memory after v is written to the operand
Write(o, v) ==
    IF o.m = "reg"
    THEN reg' = [reg EXCEPT ![o.r] = v] /\ mem' = mem
    ELSE mem' = [mem EXCEPT ![Addr(o)] = v] /\ reg' = reg
\* whether the program has the label
HasLabel(label) == \E k \in DOMAIN prog : prog[k].op = "label" /\ prog[k].name = label

\* the program is being run; "body" when the next instruction is the first
\* of the body of a function that was called
Running == cg_pc \in {"running", "body"}

\* the next instruction is at k
Goto(k) ==
    /\ ip' = k
    /\ cg_pc' = IF k \in CalleeBodies THEN "body" ELSE "running"
\* an access to an address that is not mapped ends the run
Fault == cg_pc' = "fault" /\ UNCHANGED <<ip, mem, reg>>

\* mov source, dest
CgMov ==
    /\ Running /\ prog[ip].op = "mov"
    /\ LET src == prog[ip].src
           dst == prog[ip].dst
       IN  IF ~Mapped(src) \/ ~Mapped(dst) THEN Fault
           ELSE /\ IF dst.m = "reg"
                   THEN reg' = [reg EXCEPT ![dst.r] = Val(src)] /\ mem' = mem
                   ELSE mem' = [mem EXCEPT ![Addr(dst)] = Val(src)] /\ reg' = reg
                /\ Goto(ip + 1)
    /\ UNCHANGED <<cg_err, offset, locals_size, string_dict, prog, scanVars, tcVars, parseVars, mainVars>>

\* lea source, dest
CgLea ==
    /\ Running /\ prog[ip].op = "lea"
    /\ reg' = [reg EXCEPT ![prog[ip].dst.r] = Addr(prog[ip].src)]
    /\ mem' = mem /\ Goto(ip + 1)
    /\ UNCHANGED <<cg_err, offset, locals_size, string_dict, prog, scanVars, tcVars, parseVars, mainVars>>

\* sub source, dest: dest becomes dest - source
CgSub ==
    /\ Running /\ prog[ip].op = "sub"
    /\ LET src == prog[ip].src
           dst == prog[ip].dst
       IN  IF ~Mapped(src) \/ ~Mapped(dst) THEN Fault
           ELSE Write(dst, Val(dst) - Val(src)) /\ Goto(ip + 1)
    /\ UNCHANGED <<cg_err, offset, locals_size, string_dict, prog, scanVars, tcVars, parseVars, mainVars>>

\* push source
CgPush ==
    /\ Running /\ prog[ip].op = "push"
    /\ IF reg.rsp - WORD_SIZE \notin DOMAIN mem THEN Fault
       ELSE /\ mem' = [mem EXCEPT ![reg.rsp - WORD_SIZE] = Val(prog[ip].src)]
            /\ reg' = [reg EXCEPT !.rsp = reg.rsp - WORD_SIZE]
            /\ Goto(ip + 1)
    /\ UNCHANGED <<cg_err, offset, locals_size, string_dict, prog, scanVars, tcVars, parseVars, mainVars>>

\* call name: the return address is pushed.  A function of the C library
\* (printf, scanf) is not followed: it returns with %rsp and %rbp as they
\* were and its result, any value, in %rax, scanf having stored the number
\* it read, any value, at the address in %rsi
CgCall ==
    /\ Running /\ prog[ip].op = "call"
    /\ IF reg.rsp - WORD_SIZE \notin DOMAIN mem THEN Fault
       ELSE IF ~HasLabel(<<prog[ip].src.name>>)
       THEN IF prog[ip].src.name = "scanf" /\ reg.rsi \notin DOMAIN mem THEN Fault
            ELSE \E v \in Values :
                    /\ reg' = [reg EXCEPT !.rax = v]
                    /\ mem' = IF prog[ip].src.name = "scanf"
                              THEN [mem EXCEPT ![reg.rsi] = v] ELSE mem
                    /\ Goto(ip + 1)
       ELSE /\ mem' = [mem EXCEPT ![reg.rsp - WORD_SIZE] = ip + 1]
            /\ reg' = [reg EXCEPT !.rsp = reg.rsp - WORD_SIZE]
            /\ Goto(LabelIndex(<<prog[ip].src.name>>))
    /\ UNCHANGED <<cg_err, offset, locals_size, string_dict, prog, scanVars, tcVars, parseVars, mainVars>>

\* pop register (the operand write_instr is given is its source)
CgPop ==
    /\ Running /\ prog[ip].op = "pop"
    /\ IF reg.rsp \notin DOMAIN mem THEN Fault
       ELSE /\ reg' = [reg EXCEPT !.rsp = reg.rsp + WORD_SIZE,
                                  ![prog[ip].src.r] = mem[reg.rsp]]
            /\ mem' = mem /\ Goto(ip + 1)
    /\ UNCHANGED <<cg_err, offset, locals_size, string_dict, prog, scanVars, tcVars, parseVars, mainVars>>

\* add source, dest and imul source, dest
CgAdd ==
    /\ Running /\ prog[ip].op \in {"add", "imul"}
    /\ LET src == prog[ip].src
           dst == prog[ip].dst
       IN  IF ~Mapped(src) \/ ~Mapped(dst) THEN Fault
           ELSE /\ Write(dst, IF prog[ip].op = "add" THEN Val(dst) + Val(src)
                              ELSE Val(dst) * Val(src))
                /\ Goto(ip + 1)
    /\ UNCHANGED <<cg_err, offset, locals_size, string_dict, prog, scanVars, tcVars, parseVars, mainVars>>

\* the quotient of a signed division, rounded towards zero, and its remainder
Quot(a, b) ==
    IF (a >= 0) = (b > 0)
    THEN (IF a >= 0 THEN a ELSE -a) \div (IF b > 0 THEN b ELSE -b)
    ELSE -((IF a >= 0 THEN a ELSE -a) \div (IF b > 0 THEN b ELSE -b))
Rem(a, b) == a - b * Quot(a, b)

\* cqto: %rdx becomes the sign of %rax; idiv source: %rdx:%rax is divided
\* by source, the quotient goes to %rax and the remainder to %rdx, and a
\* zero divisor or a quotient that does not fit ends the run
CgDiv ==
    /\ Running /\ prog[ip].op \in {"cqto", "idiv"}
    /\ IF prog[ip].op = "cqto"
       THEN /\ reg' = [reg EXCEPT !.rdx = IF reg.rax < 0 THEN -1 ELSE 0]
            /\ mem' = mem /\ Goto(ip + 1)
       ELSE IF Val(prog[ip].src) = 0 \/ reg.rdx # (IF reg.rax < 0 THEN -1 ELSE 0)
       THEN Fault
       ELSE /\ reg' = [reg EXCEPT !.rax = Quot(reg.rax, Val(prog[ip].src)),
                                  !.rdx = Rem(reg.rax, Val(prog[ip].src))]
            /\ mem' = mem /\ Goto(ip + 1)
    /\ UNCHANGED <<cg_err, offset, locals_size, string_dict, prog, scanVars, tcVars, parseVars, mainVars>>

\* cmp source, dest: the flags are those of dest - source
CgCmp ==
    /\ Running /\ prog[ip].op = "cmp"
    /\ LET src == prog[ip].src
           dst == prog[ip].dst
       IN  IF ~Mapped(src) \/ ~Mapped(dst) THEN Fault
           ELSE /\ reg' = [reg EXCEPT !.flags = Val(dst) - Val(src)]
                /\ mem' = mem /\ Goto(ip + 1)
    /\ UNCHANGED <<cg_err, offset, locals_size, string_dict, prog, scanVars, tcVars, parseVars, mainVars>>

\* whether a jump is taken, the flags being those of a difference d
Taken(op, d) ==
    CASE op = "jmp" -> TRUE
      [] op = "je" -> d = 0
      [] op = "jne" -> d # 0
      [] op = "jl" -> d < 0
      [] op = "jle" -> d <= 0
      [] op = "jg" -> d > 0
      [] op = "jge" -> d >= 0

\* jmp label and the conditional jumps
CgJump ==
    /\ Running /\ prog[ip].op \in {"jmp", "je", "jne", "jl", "jle", "jg", "jge"}
    /\ IF Taken(prog[ip].op, reg.flags)
       THEN Goto(LabelIndex(prog[ip].src.name))
       ELSE Goto(ip + 1)
    /\ UNCHANGED <<mem, reg>>
    /\ UNCHANGED <<cg_err, offset, locals_size, string_dict, prog, scanVars, tcVars, parseVars, mainVars>>

\* a label is no instruction: the run goes on with the line after it
CgLabel ==
    /\ Running /\ prog[ip].op = "label"
    /\ Goto(ip + 1)
    /\ UNCHANGED <<mem, reg>>
    /\ UNCHANGED <<cg_err, offset, locals_size, string_dict, prog, scanVars, tcVars, parseVars, mainVars>>

\* ret: the return address is popped; main returns to the address 0 the
\* loader left on the stack, which ends the run
CgRet ==
    /\ Running /\ prog[ip].op = "ret"
    /\ IF reg.rsp \notin DOMAIN mem THEN Fault
       ELSE /\ reg' = [reg EXCEPT !.rsp = reg.rsp + WORD_SIZE]
            /\ mem' = mem
            /\ IF mem[reg.rsp] \in DOMAIN prog
               THEN Goto(mem[reg.rsp])
               ELSE cg_pc' = "exited" /\ ip' = ip
    /\ UNCHANGED <<cg_err, offset, locals_size, string_dict, prog, scanVars, tcVars, parseVars, mainVars>>

\* ---- the programs the generator is run on: a global g, a function f
\* ---- of one or more int parameters, and main calling it with its
\* ---- locals x and y, the global and a literal as arguments ----
ParamNames == <<"p", "q", "r", "s">>
CgParams == {[k \in 1..n |-> VarDec(10 + k, ParamNames[k], "INT")] : n \in 1..MaxArgs}
CgArgs == {VarExp(23, "x"), VarExp(23, "y"), VarExp(23, "g"), IntExp(23)}
CgLocals == {<<>>, <<VarDec(3, "l", "INT")>>, <<ArrDec(3, "l", "INT", SizeStr(2))>>}
\* the statements of f before its return: none, or a nested compound
\* statement with a local of its own
CgInner == {<<>>, <<CompStmt(5, <<VarDec(6, "n", "INT")>>, <<>>)>>}
CgCallProgs ==
    { << VarDec(1, "g", "INT"),
         FunDec(2, "f", "INT", ps, CompStmt(2, ls, inner \o <<RetStmt(4, IntExp(4))>>)),
         FunDec(20, "main", "INT", <<>>,
            CompStmt(20, <<VarDec(21, "x", "INT"), VarDec(22, "y", "INT")>>,
                         <<ExpStmt(23, FunCallExp(23, "f", as))>>)) >> :
        ps \in CgParams, ls \in CgLocals, inner \in CgInner,
        as \in SeqsUpTo(CgArgs, MaxArgs) \ {<<>>} }

\* ---- main assigning through variables and pointers: x = y, *p = y,
\* ---- x = *p, and p = &x or p = &a[1] followed by *p = y ----
Assign(ln, l, r) == ExpStmt(ln, OpExp("ASSIGN_EXP", ln, "EQUAL", l, r))
CgAddrStmts ==
    { <<Assign(24, VarExp(24, "x"), VarExp(24, "y"))>>,
      <<Assign(24, DerefExp(24, VarExp(24, "p")), VarExp(24, "y"))>>,
      <<Assign(24, VarExp(24, "x"), DerefExp(24, VarExp(24, "p")))>>,
      <<Assign(24, VarExp(24, "p"), AddrExp(24, VarExp(24, "x"))),
        Assign(25, DerefExp(25, VarExp(25, "p")), VarExp(25, "y"))>>,
      <<Assign(24, VarExp(24, "p"), AddrExp(24, ArrExp(24, "a", IntExp(24)))),
        Assign(25, DerefExp(25, VarExp(25, "p")), VarExp(25, "y"))>> }
CgAddrProgs ==
    { << VarDec(1, "g", "INT"), ArrDec(2, "a", "INT", SizeStr(2)),
         FunDec(20, "main", "INT", <<>>,
            CompStmt(20, <<VarDec(21, "x", "INT"), VarDec(22, "y", "INT"),
                           VarDec(23, "p", "INT_PTR")>>, stmts)) >> :
        stmts \in CgAddrStmts }

\* ---- main using a string literal as the argument of a call of
\* ---- s(string t): the call standing alone, on the right of an
\* ---- assignment, returned, as an operand, negated, as an array index
\* ---- and as the condition of an if and of a while ----
CallS(ln, val) == FunCallExp(ln, "s", <<StrExpNode(ln, StrVal(val))>>)
CgStrStmts ==
    { <<ExpStmt(24, CallS(24, "a"))>>,
      <<Assign(24, VarExp(24, "x"), CallS(24, "a"))>>,
      <<RetStmt(24, CallS(24, "a"))>>,
      <<ExpStmt(24, CallS(24, "a")), ExpStmt(25, CallS(25, "b")), ExpStmt(26, CallS(26, "a"))>>,
      <<Assign(24, VarExp(24, "x"), OpExp("ARITH_EXP", 24, "PLUS", CallS(24, "a"), VarExp(24, "x")))>>,
      <<Assign(24, VarExp(24, "x"), OpExp("COMP_EXP", 24, "LESS", VarExp(24, "x"), CallS(24, "a")))>>,
      <<Assign(24, VarExp(24, "x"), NegExp(24, CallS(24, "a")))>>,
      <<Assign(24, VarExp(24, "x"), ArrExp(24, "a", CallS(24, "a")))>>,
      <<IfStmt(24, CallS(24, "a"), Assign(25, VarExp(25, "x"), VarExp(25, "y")), None)>>,
      <<WhileStmt(24, CallS(24, "a"), Assign(25, VarExp(25, "x"), VarExp(25, "y")))>>,
      <<ExpStmt(24, CallS(24, "a")),
        IfStmt(25, CallS(25, "b"), Assign(26, VarExp(26, "x"), VarExp(26, "y")), None)>> }
CgStrProgs ==
    { << VarDec(1, "g", "INT"), ArrDec(2, "a", "INT", SizeStr(2)),
         FunDec(3, "s", "INT", <<VarDec(4, "t", "STRING")>>,
            CompStmt(3, <<>>, <<RetStmt(5, IntExp(5))>>)),
         FunDec(20, "main", "INT", <<>>,
            CompStmt(20, <<VarDec(21, "x", "INT"), VarDec(22, "y", "INT")>>, stmts)) >> :
        stmts \in CgStrStmts }

\* ---- main evaluating l op r, each operand a variable or a difference
\* ---- of two variables ----
ArithOps == {"PLUS", "MINUS", "STAR", "SLASH", "MOD"}
Relops == {"BOOLEQ", "NEQUAL", "LESS", "LEQUAL", "GREATER", "GEQUAL"}
BinaryExp(op, l, r) ==
    OpExp(IF op \in ArithOps THEN "ARITH_EXP" ELSE "COMP_EXP", 24, op, l, r)
CgOperands(name) ==
    { VarExp(24, name), OpExp("ARITH_EXP", 24, "MINUS", VarExp(24, name), VarExp(24, "g")) }
CgExprProgs ==
    { << VarDec(1, "g", "INT"),
         FunDec(20, "main", "INT", <<>>,
            CompStmt(20, <<VarDec(21, "x", "INT"), VarDec(22, "y", "INT")>>,
                         <<ExpStmt(24, BinaryExp(op, l, r))>>)) >> :
        op \in ArithOps \cup Relops, l \in CgOperands("x"), r \in CgOperands("y") }

\* ---- a function f(void), returning an int or nothing, and main
\* ---- calling it without an argument or not at all ----
CgVoidFuns ==
    { FunDec(2, "f", "INT", <<>>, CompStmt(2, <<>>, <<RetStmt(4, IntExp(4))>>)),
      FunDec(2, "f", "VOID", <<>>, CompStmt(2, <<>>, <<RetStmt(4, None)>>)),
      FunDec(2, "f", "VOID", <<>>, CompStmt(2, <<>>, <<WritelnStmt(4)>>)) }
CgVoidStmts ==
    { <<ExpStmt(23, FunCallExp(23, "f", <<>>))>>,
      <<Assign(23, VarExp(23, "x"), VarExp(23, "y")),
        ExpStmt(24, FunCallExp(24, "f", <<>>))>>,
      <<Assign(23, VarExp(23, "x"), VarExp(23, "y"))>>,
      <<Assign(23, VarExp(23, "x"), VarExp(23, "y")), RetStmt(24, VarExp(24, "x"))>> }
CgVoidProgs ==
    { << VarDec(1, "g", "INT"), f,
         FunDec(20, "main", "INT", <<>>,
            CompStmt(20, <<VarDec(21, "x", "INT"), VarDec(22, "y", "INT")>>, stmts)) >> :
        f \in CgVoidFuns, stmts \in CgVoidStmts }

\* ---- main with a local, scalar or array, in each body of an if and
\* ---- in the body of a while ----
CgBranchLocals(ln, name) == {VarDec(ln, name, "INT"), ArrDec(ln, name, "INT", SizeStr(2))}
CgBranchProgs ==
    { << VarDec(1, "g", "INT"),
         FunDec(20, "main", "INT", <<>>,
            CompStmt(20, <<VarDec(21, "x", "INT"), VarDec(22, "y", "INT")>>,
               << IfStmt(24, VarExp(24, "x"),
                     CompStmt(25, <<t>>, <<Assign(26, VarExp(26, "y"), VarExp(26, "x"))>>),
                     CompStmt(27, <<e>>, <<Assign(28, VarExp(28, "y"), VarExp(28, "g"))>>)),
                  WhileStmt(29, OpExp("COMP_EXP", 29, "LESS", VarExp(29, "y"), VarExp(29, "x")),
                     CompStmt(30, <<w>>, <<Assign(31, VarExp(31, "y"), VarExp(31, "x"))>>)) >>)) >> :
        t \in CgBranchLocals(25, "t"), e \in CgBranchLocals(27, "e"),
        w \in CgBranchLocals(30, "w") }

\* ---- f(p, q) returning an expression of its parameters, with or
\* ---- without a local, and main calling it: alone, assigned, twice in
\* ---- a sum, negated and as the condition of an if, and main reading
\* ---- and writing a number ----
CallF(l, r) == FunCallExp(24, "f", <<l, r>>)
CgReturned ==
    { VarExp(4, "p"), NegExp(4, VarExp(4, "q")),
      OpExp("ARITH_EXP", 4, "MINUS", VarExp(4, "p"), VarExp(4, "q")) }
CgBalanceStmts ==
    { <<ExpStmt(24, CallF(VarExp(24, "x"), VarExp(24, "y")))>>,
      <<Assign(24, VarExp(24, "x"), CallF(VarExp(24, "x"), VarExp(24, "g"))),
        Assign(25, VarExp(25, "y"), VarExp(25, "x"))>>,
      <<Assign(24, VarExp(24, "x"),
               OpExp("ARITH_EXP", 24, "PLUS", CallF(VarExp(24, "y"), VarExp(24, "x")),
                     CallF(VarExp(24, "x"), VarExp(24, "g"))))>>,
      <<Assign(24, VarExp(24, "x"), NegExp(24, CallF(VarExp(24, "x"), VarExp(24, "y"))))>>,
      <<IfStmt(24, CallF(VarExp(24, "x"), VarExp(24, "y")),
               Assign(25, VarExp(25, "y"), VarExp(25, "x")), None),
        RetStmt(26, VarExp(26, "y"))>>,
      <<Assign(24, VarExp(24, "x"), ReadExp(24)), WriteStmt(25, VarExp(25, "x")),
        WritelnStmt(26)>>,
      <<Assign(24, VarExp(24, "x"),
               OpExp("ARITH_EXP", 24, "MINUS", VarExp(24, "y"), ReadExp(24)))>> }
CgBalanceProgs ==
    { << VarDec(1, "g", "INT"),
         FunDec(2, "f", "INT", <<VarDec(11, "p", "INT"), VarDec(12, "q", "INT")>>,
            CompStmt(2, ls, <<RetStmt(4, e)>>)),
         FunDec(20, "main", "INT", <<>>,
            CompStmt(20, <<VarDec(21, "x", "INT"), VarDec(22, "y", "INT")>>, stmts)) >> :
        ls \in {<<>>, <<VarDec(3, "l", "INT")>>}, e \in CgReturned,
        stmts \in CgBalanceStmts }

CgProgs ==
    CgCallProgs \cup CgAddrProgs \cup CgStrProgs \cup CgExprProgs \cup CgVoidProgs
    \cup CgBranchProgs \cup CgBalanceProgs

(***************************************************************************)
(*                     THE PARSER (bpl/parser/parser.py)                   *)
(*                                                                         *)
(* The parser reads the scanner's tokens one at a time; here the stream is *)
(* the sequence ts, ending with the EOF token, and p is the index of       *)
(* self.scan.next_token.  A parsing method becomes an operator from        *)
(* (ts, p) to the outcome of the call: the node it returns and the index   *)
(* it leaves the scanner at, or the exception it raises.                   *)
(***************************************************************************)
\* a call returns node and leaves the scanner at p
Returned(node, p) == [node |-> node, pos |-> p, err |-> ""]
\* a call raises e
Raised(e, p) == [node |-> None, pos |-> p, err |-> e]

\* Parser.cur_token
cur_token(ts, p) == ts[p]
\* Parser.consume: Scanner.get_next_token keeps the last token once the
\* generator is exhausted
consume(ts, p) == IF p < Len(ts) THEN p + 1 ELSE p
\* Parser.expect
expect(ts, p, token_types) ==
    IF cur_token(ts, p).typ \notin token_types
    THEN Raised("ParseException", p)
    ELSE Returned(cur_token(ts, p), consume(ts, p))

\* Parser.var: VarExpNode has no parameter called line
var(ts, p) ==
    IF expect(ts, p, {"ID"}).err # ""
    THEN expect(ts, p, {"ID"})
    ELSE Raised("TypeError", expect(ts, p, {"ID"}).pos)

\* the attributes of class TokenType (token.py:7-120)
TokenTypeAttrs ==
    {"ID", "NUM", "STRLIT", "INT", "VOID", "STRING", "IF", "ELSE", "WHILE",
     "RETURN", "WRITE", "WRITELN", "READ", "EQUAL", "SEMI", "COMMA", "LSQUARE",
     "RSQUARE", "LCURLY", "RCURLY", "LPAREN", "RPAREN", "LESS", "LEQUAL",
     "BOOLEQ", "NEQUAL", "GEQUAL", "GREATER", "PLUS", "MINUS", "STAR", "SLASH",
     "MOD", "AMP", "EOF", "constants", "Keywords", "Symbols"}

RECURSIVE expression(_, _), E(_, _), E_while(_, _, _), T(_, _), T_while(_, _, _)
RECURSIVE F(_, _), factor(_, _), args(_, _), args_list(_, _)

\* OpExpNode(kind, l_exp.line_number, op, l_exp, r_exp), where r is the
\* outcome of the call that parses r_exp
OpExpNode(kind, op, l_exp, r) ==
    IF r.err # "" THEN r
    ELSE Returned(OpExp(kind, l_exp.line_number, op, l_exp, r.node), r.pos)

\* self.expect(token_types) once the call with outcome r has returned;
\* the node stays r's
then_expect(ts, r, token_types) ==
    IF r.err # "" THEN r
    ELSE IF expect(ts, r.pos, token_types).err # "" THEN expect(ts, r.pos, token_types)
    ELSE Returned(r.node, expect(ts, r.pos, token_types).pos)

\* the rest of expression without the test of first_exp's kind
expression_rest_any_kind(ts, first, p) ==
    IF cur_token(ts, p).typ = "EQUAL"
    THEN OpExpNode("ASSIGN_EXP", "EQUAL", first, expression(ts, consume(ts, p)))
    ELSE IF "Relops" \notin TokenTypeAttrs
    THEN Raised("AttributeError", p)
    ELSE IF cur_token(ts, p).typ \in Relops
    THEN OpExpNode("COMP_EXP", cur_token(ts, p).typ, first, expression(ts, consume(ts, p)))
    ELSE Returned(first, p)
\* the rest of expression once E has returned first_exp and left the
\* scanner at p
expression_rest(ts, first, p) ==
    IF cur_token(ts, p).typ = "EQUAL"
    THEN IF first.kind \notin {"VAR_EXP", "ARR_EXP", "DEREF_EXP"}
         THEN Raised("ParseException", p)
         ELSE OpExpNode("ASSIGN_EXP", "EQUAL", first, expression(ts, consume(ts, p)))
    \* TokenType.Relops is looked up before the token is compared
    ELSE IF "Relops" \notin TokenTypeAttrs
    THEN Raised("AttributeError", p)
    ELSE IF cur_token(ts, p).typ \in Relops
    THEN OpExpNode("COMP_EXP", cur_token(ts, p).typ, first, expression(ts, consume(ts, p)))
    ELSE Returned(first, p)

\* expression from the return of E on: r is the outcome of self.E()
expression_first(ts, r) ==
    IF r.err # "" THEN r ELSE expression_rest(ts, r.node, r.pos)
\* Parser.expression
expression(ts, p) == expression_first(ts, E(ts, p))

\* E's loop from the return of a call of T on: r holds the tree so far
E_t(ts, r) == IF r.err # "" THEN r ELSE E_while(ts, r.node, r.pos)
\* E's loop written as the right recursion E -> T + E
E_while_right_recursive(ts, t, p) ==
    IF cur_token(ts, p).typ \notin {"PLUS", "MINUS"}
    THEN Returned(t, p)
    ELSE OpExpNode("ARITH_EXP", cur_token(ts, p).typ, t, E(ts, consume(ts, p)))
\* one test of the while loop of E: t is the tree so far
E_while(ts, t, p) ==
    IF cur_token(ts, p).typ \notin {"PLUS", "MINUS"}
    THEN Returned(t, p)
    ELSE E_t(ts, OpExpNode("ARITH_EXP", cur_token(ts, p).typ, t, T(ts, consume(ts, p))))
\* Parser.E
E(ts, p) == E_t(ts, T(ts, p))

\* T's loop from the return of a call of F on: r holds the tree so far
T_f(ts, r) == IF r.err # "" THEN r ELSE T_while(ts, r.node, r.pos)
\* one test of the while loop of T: f is the tree so far
T_while(ts, f, p) ==
    IF cur_token(ts, p).typ \notin {"STAR", "SLASH", "MOD"}
    THEN Returned(f, p)
    ELSE T_f(ts, OpExpNode("ARITH_EXP", cur_token(ts, p).typ, f, F(ts, consume(ts, p))))
\* Parser.T
T(ts, p) == T_f(ts, F(ts, p))

\* the node F builds around the factor whose parse had outcome fact
F_node(op, ln, fact) ==
    IF fact.err # "" THEN fact
    ELSE CASE op.typ = "MINUS" -> Returned(NegExp(ln, fact.node), fact.pos)
           [] op.typ = "AMP"   -> Returned(AddrExp(ln, fact.node), fact.pos)
           [] OTHER            -> Returned(DerefExp(ln, fact.node), fact.pos)
\* Parser.F
F(ts, p) ==
    IF cur_token(ts, p).typ \in {"MINUS", "AMP", "STAR"}
    THEN F_node(cur_token(ts, p), cur_token(ts, p).line, factor(ts, consume(ts, p)))
    ELSE factor(ts, p)

\* ArrExpNode(name.line, name.val, index), index parsed with outcome r
ArrExpNode(name, r) ==
    IF r.err # "" THEN r ELSE Returned(ArrExp(name.line, name.val, r.node), r.pos)
\* FunCallExpNode(name.line, name.val, args), args parsed with outcome r
FunCallExpNode(name, r) ==
    IF r.err # "" THEN r ELSE Returned(FunCallExp(name.line, name.val, r.node), r.pos)
\* DerefExpNode(line, self.var()), var with outcome r
DerefExpNode(ln, r) ==
    IF r.err # "" THEN r ELSE Returned(DerefExp(ln, r.node), r.pos)
\* ReadExpNode(line) after the two parentheses, expected with outcome r
ReadExpNode(ln, r) ==
    IF r.err # "" THEN r ELSE Returned(ReadExp(ln), r.pos)

\* Parser.factor, the branch of an ID: name is the token consumed
factor_ID(ts, name, p) ==
    IF cur_token(ts, p).typ = "LSQUARE"
    THEN ArrExpNode(name, then_expect(ts, expression(ts, consume(ts, p)), {"RSQUARE"}))
    ELSE IF cur_token(ts, p).typ = "LPAREN"
    THEN FunCallExpNode(name, then_expect(ts, args(ts, consume(ts, p)), {"RPAREN"}))
    ELSE Returned(VarExp(name.line, name.val), p)

\* Parser.factor
factor(ts, p) ==
    CASE cur_token(ts, p).typ = "ID" -> factor_ID(ts, cur_token(ts, p), consume(ts, p))
      [] cur_token(ts, p).typ = "READ" ->
            ReadExpNode(cur_token(ts, p).line,
                        then_expect(ts, expect(ts, consume(ts, p), {"LPAREN"}), {"RPAREN"}))
      [] cur_token(ts, p).typ = "STAR" ->
            DerefExpNode(cur_token(ts, p).line, var(ts, consume(ts, p)))
      [] cur_token(ts, p).typ = "NUM" ->
            Returned(IntExpNode(cur_token(ts, p).line, cur_token(ts, p).val),
                     consume(ts, p))
      [] cur_token(ts, p).typ = "STRLIT" ->
            Returned(StrExpNode(cur_token(ts, p).line, cur_token(ts, p).val),
                     consume(ts, p))
      [] cur_token(ts, p).typ = "LPAREN" ->
            then_expect(ts, expression(ts, consume(ts, p)), {"RPAREN"})
      [] OTHER -> Raised("ParseException", p)

\* Parser.args: None for an empty argument list
args(ts, p) ==
    IF cur_token(ts, p).typ = "RPAREN" THEN Returned(None, p) ELSE args_list(ts, p)

\* head with cur.nxt = self.args_list(), whose outcome is rest
args_nxt(head, rest) ==
    IF rest.err # "" THEN rest ELSE Returned(<<head>> \o rest.node, rest.pos)
\* args_list from the return of expression on: r is the outcome for head
args_head(ts, r) ==
    IF r.err # "" THEN r
    ELSE IF cur_token(ts, r.pos).typ # "COMMA" THEN Returned(<<r.node>>, r.pos)
    ELSE args_nxt(r.node, args_list(ts, consume(ts, r.pos)))
\* Parser.args_list: the head and its nxt chain, as a sequence
args_list(ts, p) == args_head(ts, expression(ts, p))

\* ---- Parser.expression_statement, in two steps ----
\* first_exp = self.E() of the call of expression it makes
ParseE ==
    /\ parse_pc = "expression"
    /\ IF E(toks, pos).err # ""
       THEN /\ parse_pc' = "raised" /\ parse_err' = E(toks, pos).err
            /\ pos' = E(toks, pos).pos
            /\ UNCHANGED first_exp
       ELSE /\ parse_pc' = "first_exp" /\ parse_err' = ""
            /\ pos' = E(toks, pos).pos
            /\ first_exp' = E(toks, pos).node
    /\ UNCHANGED <<toks, stmt_exp>>
    /\ UNCHANGED <<scanVars, tcVars, cgVars, mainVars>>

\* the rest of expression, and self.expect(TokenType.SEMI, ...)
ParseExpressionRest ==
    /\ parse_pc = "first_exp"
    /\ IF expression_rest(toks, first_exp, pos).err # ""
       THEN /\ parse_pc' = "raised"
            /\ parse_err' = expression_rest(toks, first_exp, pos).err
            /\ pos' = expression_rest(toks, first_exp, pos).pos
            /\ UNCHANGED stmt_exp
       ELSE /\ stmt_exp' = expression_rest(toks, first_exp, pos).node
            /\ pos' = expect(toks, expression_rest(toks, first_exp, pos).pos, {"SEMI"}).pos
            /\ IF expect(toks, expression_rest(toks, first_exp, pos).pos, {"SEMI"}).err # ""
               THEN parse_pc' = "raised" /\ parse_err' = "ParseException"
               ELSE parse_pc' = "returned" /\ parse_err' = ""
    /\ UNCHANGED <<toks, first_exp>>
    /\ UNCHANGED <<scanVars, tcVars, cgVars, mainVars>>

\* ---- the statements parsed ----
\* most operands of a chain
MaxOperands == 3
\* the identifier and the number of the k-th operand
NameOf(k) == <<<<"a">>, <<"b">>, <<"c">>, <<"d">>, <<"e">>>>[k]
NumOf(k) == <<<<"1">>, <<"2">>, <<"3">>, <<"4">>, <<"5">>>>[k]
\* a token before its line is known
Lexeme(typ, val) == <<typ, val>>
Sym(typ) == Lexeme(typ, <<>>)
\* the k-th operand: a variable, a number, a call, a dereference
Operands(k) ==
    { <<Lexeme("ID", NameOf(k))>>,
      <<Lexeme("NUM", NumOf(k))>>,
      <<Lexeme("ID", NameOf(k)), Sym("LPAREN"), Sym("RPAREN")>>,
      <<Sym("STAR"), Lexeme("ID", NameOf(k))>> }
\* the operators between two operands
Operators == {"PLUS", "MINUS", "STAR", "SLASH", "EQUAL"}
\* the chains of n operands
RECURSIVE Chains(_)
Chains(n) ==
    IF n = 1 THEN Operands(1)
    ELSE {c \o <<Sym(op)>> \o o : c \in Chains(n - 1), op \in Operators, o \in Operands(n)}
\* expressions outside the chains: unary operators, brackets, arguments
OtherExpressions ==
    LET a == Lexeme("ID", NameOf(1))
        b == Lexeme("ID", NameOf(2))
        one == Lexeme("NUM", NumOf(1))
    IN  { <<Sym("MINUS"), a>>, <<Sym("AMP"), a>>, <<Sym("MINUS"), Sym("MINUS"), a>>,
          <<Sym("STAR"), Sym("STAR"), a>>, <<Sym("MINUS"), Sym("STAR"), a>>,
          <<Sym("AMP"), Sym("STAR"), a>>,
          <<Sym("STAR"), one>>,
          <<Sym("LPAREN"), a, Sym("RPAREN")>>, <<Sym("LPAREN"), a>>,
          <<a, Sym("LSQUARE"), one, Sym("RSQUARE")>>,
          <<a, Sym("LSQUARE"), one, Sym("RSQUARE"), Sym("EQUAL"), b>>,
          <<a, Sym("LPAREN"), b, Sym("RPAREN")>>,
          <<a, Sym("LPAREN"), b, Sym("COMMA"), one, Sym("RPAREN")>>,
          <<a, Sym("LPAREN"), b>>,
          <<Sym("READ"), Sym("LPAREN"), Sym("RPAREN")>>, <<Sym("READ")>>,
          <<a, Sym("MOD"), b>>, <<a, Sym("LESS"), b>>, <<a, Sym("BOOLEQ"), one>>,
          <<Lexeme("STRLIT", <<"s">>)>>, <<Sym("RPAREN")>>, <<a, Sym("PLUS")>>, <<>> }
\* the token stream of a statement: one token a line, then ; and EOF
TokensOf(s) ==
    [k \in 1..(Len(s) + 2) |->
        IF k <= Len(s) THEN Token(s[k][1], s[k][2], k)
        ELSE IF k = Len(s) + 1 THEN Token("SEMI", <<";">>, k)
        ELSE Token("EOF", <<"E", "O", "F">>, k)]
\* the same without the semicolon
TokensNoSemi(s) ==
    [k \in 1..(Len(s) + 1) |->
        IF k <= Len(s) THEN Token(s[k][1], s[k][2], k) ELSE Token("EOF", <<"E", "O", "F">>, k)]
Statements ==
    {TokensOf(s) : s \in (UNION {Chains(n) : n \in 1..MaxOperands}) \cup OtherExpressions}
    \cup {TokensNoSemi(s) : s \in Chains(1)}

(***************************************************************************)
(*                 THE DRIVER (bpl/test/code_gen_test.py)                  *)
(*                                                                         *)
(* The loop over sys.argv[1:], one action a statement of its body.  A file *)
(* is what decides the run: the call that raises on it, "none" for a file  *)
(* that compiles.  Nothing in the loop catches an exception, so one that   *)
(* a call raises leaves the loop and ends the interpreter.                 *)
(***************************************************************************)
\* most files on the command line
MaxFiles == 3
\* the call that raises on a file: Parser() for a text whose first token
\* cannot be scanned, parse for a later scanning error or a syntax error,
\* type_check for a resolution or a type error, gen_all for an error of
\* the code generator
Files == {"none", "Parser", "parse", "type_check", "gen_all"}

\* a call of the loop body on the file at hand: it raises or control
\* passes on to the statement at next
DriverStep(call, next) ==
    IF argv[main_k] = call THEN main_pc' = "raised" ELSE main_pc' = next

\* for filename in sys.argv[1:]: p = Parser(filename)
DriverParser ==
    /\ main_pc = "for" /\ main_k <= Len(argv)
    /\ attempted' = attempted \cup {main_k}
    /\ DriverStep("Parser", "parse")
    /\ UNCHANGED <<argv, main_k>>
    /\ UNCHANGED <<scanVars, tcVars, cgVars, parseVars>>
\* p.parse()
DriverParse ==
    /\ main_pc = "parse"
    /\ DriverStep("parse", "type_check")
    /\ UNCHANGED <<argv, main_k, attempted>>
    /\ UNCHANGED <<scanVars, tcVars, cgVars, parseVars>>
\* t = TypeChecker(...); t.type_check()
DriverTypeCheck ==
    /\ main_pc = "type_check"
    /\ DriverStep("type_check", "gen_all")
    /\ UNCHANGED <<argv, main_k, attempted>>
    /\ UNCHANGED <<scanVars, tcVars, cgVars, parseVars>>
\* c = CodeGenerator(...); c.gen_all()
DriverGenAll ==
    /\ main_pc = "gen_all"
    /\ DriverStep("gen_all", "call")
    /\ UNCHANGED <<argv, main_k, attempted>>
    /\ UNCHANGED <<scanVars, tcVars, cgVars, parseVars>>
\* call(['gcc', ...]), then the next file
DriverCall ==
    /\ main_pc = "call"
    /\ main_k' = main_k + 1 /\ main_pc' = "for"
    /\ UNCHANGED <<argv, attempted>>
    /\ UNCHANGED <<scanVars, tcVars, cgVars, parseVars>>
\* the list is exhausted
DriverExit ==
    /\ main_pc = "for" /\ main_k > Len(argv)
    /\ main_pc' = "exited"
    /\ UNCHANGED <<argv, main_k, attempted>>
    /\ UNCHANGED <<scanVars, tcVars, cgVars, parseVars>>

(***************************************************************************)
(*                           THE SPECIFICATIONS                            *)
(***************************************************************************)
\* the scanner run on every input text
InitScan ==
    /\ buf \in Buffers
    /\ i = 0 /\ line = 1 /\ state = "START" /\ cur_str = <<>>
    /\ tokens = <<>> /\ scan_pc = "loop" /\ scan_err = ""
    /\ steps = 0 /\ next_token = <<>> /\ calls = 0
    /\ TcIdle /\ CgIdle /\ ParseIdle /\ MainIdle
NextScan ==
    \/ ScanStart \/ ScanComment \/ ScanStrlit \/ ScanKeyId
    \/ ScanSymbol \/ ScanNumber \/ ScanEnd \/ ScanGetNextToken
SpecScan == InitScan /\ [][NextScan]_vars

\* the type checker run on every program
InitTC ==
    /\ tree \in Programs /\ tc_pc = "parsed" /\ tc_err = ""
    /\ ScanIdle /\ CgIdle /\ ParseIdle /\ MainIdle
NextTC == TcLink \/ TcCheck
SpecTC == InitTC /\ [][NextTC]_vars

\* the compiler from the type checker on, and the program it wrote run
\* until it ends
InitCG ==
    /\ tree \in CgProgs /\ tc_pc = "parsed" /\ tc_err = ""
    /\ ScanIdle /\ CgIdle /\ ParseIdle /\ MainIdle
NextCG ==
    \/ TcLink \/ TcCheck \/ CgGenAll \/ CgLoad
    \/ CgMov \/ CgLea \/ CgSub \/ CgPush \/ CgCall
    \/ CgPop \/ CgAdd \/ CgDiv \/ CgCmp \/ CgJump \/ CgLabel \/ CgRet
SpecCG == InitCG /\ [][NextCG]_vars

\* the parser run on every expression statement
InitParse ==
    /\ toks \in Statements /\ pos = 1 /\ parse_pc = "expression" /\ parse_err = ""
    /\ first_exp = <<>> /\ stmt_exp = <<>>
    /\ ScanIdle /\ TcIdle /\ CgIdle /\ MainIdle
NextParse == ParseE \/ ParseExpressionRest
SpecParse == InitParse /\ [][NextParse]_vars

\* the driver run on every command line of one to MaxFiles files
InitMain ==
    /\ argv \in SeqsUpTo(Files, MaxFiles) \ {<<>>}
    /\ main_pc = "for" /\ main_k = 1 /\ attempted = {}
    /\ ScanIdle /\ TcIdle /\ CgIdle /\ ParseIdle
NextMain ==
    \/ DriverParser \/ DriverParse \/ DriverTypeCheck \/ DriverGenAll \/ DriverCall \/ DriverExit
SpecMain == InitMain /\ [][NextMain]_vars

(***************************************************************************)
(*                      THE PROPERTIES OF THE SCANNER                      *)
(***************************************************************************)
\* the values of a sequence of tokens, one after the other
RECURSIVE Concat(_)
Concat(ts) == IF ts = <<>> THEN <<>> ELSE Head(ts).val \o Concat(Tail(ts))

\* the text without its white space
NotSpace(c) == ~isspace(c)
Lexemes(text) == SelectSeq(text, NotSpace)

\* a text of identifiers, keywords, numbers and symbols only: no string
\* literal and no comment
PlainText(text) ==
    /\ \A k \in DOMAIN text : text[k] # "\""
    /\ \A k \in 1..(Len(text) - 1) : ~(text[k] = "/" /\ text[k + 1] = "*")

\* C1: when the scanner has emitted EOF, every lexeme of the text was
\* emitted as a token before it, the last one included: on a text without
\* string literals and comments the tokens before EOF spell the text
\* without its white space.
C1_EveryLexemeBeforeEOF ==
    (scan_pc = "done" /\ PlainText(buf)) =>
        /\ tokens[Len(tokens)].typ = "EOF"
        /\ Concat(SubSeq(tokens, 1, Len(tokens) - 1)) = Lexemes(buf)

(***************************************************************************)
(*                   THE PROPERTIES OF THE TYPE CHECKER                    *)
(***************************************************************************)
\* the return statements in and below a statement, at any depth
RECURSIVE RetsOfStmt(_), RetsOfStmts(_)
RetsOfStmt(stmt) ==
    IF stmt.kind = "RET_STMT" THEN {stmt}
    ELSE IF stmt.kind = "COMP_STMT" THEN RetsOfStmts(stmt.stmt_list)
    ELSE IF stmt.kind = "IF_STMT"
    THEN RetsOfStmt(stmt.true_body)
         \cup (IF stmt.false_body # None THEN RetsOfStmt(stmt.false_body) ELSE {})
    ELSE IF stmt.kind = "WHILE_STMT" THEN RetsOfStmt(stmt.body)
    ELSE {}
RetsOfStmts(stmts) ==
    IF stmts = <<>> THEN {} ELSE RetsOfStmt(Head(stmts)) \cup RetsOfStmts(Tail(stmts))

\* C2: when the checker has accepted the program, in every function whose
\* return type is not VOID every return statement that has a value, at
\* any depth of the body, has a value of the function's return type.
C2_NestedReturnTypeChecked ==
    tc_pc = "checked" =>
        \A f \in Functions : f.typ # "VOID" =>
            \A r \in RetsOfStmt(f.body) : r.val # None => r.val.typ = f.typ

\* C3: a program whose functions are all VOID and whose return
\* statements, at any depth, all have no value is not rejected for a
\* return statement.
C3_VoidReturnAccepted ==
    ( /\ Functions # {}
      /\ \A f \in Functions :
            f.typ = "VOID" /\ \A r \in RetsOfStmt(f.body) : r.val = None )
    => tc_err \notin { "TypeException: Missing return value.",
                       "TypeException: Cannot return value from void function." }

\* every expression in and below an expression: operands, array indices
\* and the arguments of calls
RECURSIVE SubExprs(_)
SubExprs(e) ==
    {e} \cup
    ( IF e.kind = "ARR_EXP" THEN SubExprs(e.index)
      ELSE IF e.kind = "FUN_CALL_EXP" THEN UNION {SubExprs(e.params[k]) : k \in DOMAIN e.params}
      ELSE IF e.kind \in {"ADDR_EXP", "DEREF_EXP", "NEG_EXP"} THEN SubExprs(e.exp)
      ELSE IF IsOpExp(e) THEN SubExprs(e.l_exp) \cup SubExprs(e.r_exp)
      ELSE {} )

\* lexical scoping: env maps each visible name to (the line of) its
\* innermost declaration; the declarations of a scope hide the outer ones
RECURSIVE Shadow(_, _)
Shadow(env, decs) ==
    IF decs = <<>> THEN env
    ELSE Shadow((Head(decs).name :> Head(decs).line_number) @@ env, Tail(decs))

\* the expressions of a statement, each with the scope it stands in
Scoped(exprs, env) == {[node |-> e, env |-> env] : e \in exprs}
RECURSIVE UsesOfStmt(_, _), UsesOfStmts(_, _)
UsesOfStmt(stmt, env) ==
    IF stmt.kind \in {"EXPR_STMT", "WRITE_STMT"} THEN Scoped(SubExprs(stmt.expr), env)
    ELSE IF stmt.kind = "COMP_STMT"
    THEN UsesOfStmts(stmt.stmt_list, Shadow(env, stmt.local_decs))
    ELSE IF stmt.kind = "IF_STMT"
    THEN Scoped(SubExprs(stmt.cond), env) \cup UsesOfStmt(stmt.true_body, env)
         \cup (IF stmt.false_body # None THEN UsesOfStmt(stmt.false_body, env) ELSE {})
    ELSE IF stmt.kind = "WHILE_STMT"
    THEN Scoped(SubExprs(stmt.cond), env) \cup UsesOfStmt(stmt.body, env)
    ELSE IF stmt.kind = "RET_STMT" /\ stmt.val # None THEN Scoped(SubExprs(stmt.val), env)
    ELSE {}
UsesOfStmts(stmts, env) ==
    IF stmts = <<>> THEN {} ELSE UsesOfStmt(Head(stmts), env) \cup UsesOfStmts(Tail(stmts), env)

\* the global scope, and every expression of the tree with its scope: a
\* function's parameters and the locals of its body hide the globals
GlobalEnv == Shadow(EmptyTable, tree)
UsesOfTree == UNION {UsesOfStmt(f.body, Shadow(GlobalEnv, f.params)) : f \in Functions}

\* C4: after a successful resolution every VarExp and ArrExp of the tree
\* names a declaration that is in scope where it stands, and is linked to
\* the innermost one of that name.
C4_LinkedToInnermostDeclaration ==
    tc_pc = "linked" =>
        \A u \in UsesOfTree : u.node.kind \in {"VAR_EXP", "ARR_EXP"} =>
            /\ u.node.name \in DOMAIN u.env
            /\ u.node.dec = u.env[u.node.name]

\* C5: after a successful resolution every function call of the tree is
\* linked to the global declaration of its name, whatever parameter or
\* local of that name is in scope and wherever in the file the function
\* is declared.
C5_CallLinkedToGlobal ==
    tc_pc = "linked" =>
        \A u \in UsesOfTree : u.node.kind = "FUN_CALL_EXP" =>
            /\ u.node.name \in DOMAIN GlobalEnv
            /\ u.node.dec = GlobalEnv[u.node.name]

\* every expression node of the tree
ExprsOfTree == {u.node : u \in UsesOfTree}

\* a program of one function whose first statement is an assignment
IsAssignProgram ==
    /\ Len(tree) = 1 /\ tree[1].kind = "FUN_DEC"
    /\ tree[1].body.stmt_list # <<>>
    /\ tree[1].body.stmt_list[1].kind = "EXPR_STMT"
    /\ tree[1].body.stmt_list[1].expr.kind = "ASSIGN_EXP"
FirstAssign == tree[1].body.stmt_list[1].expr

\* C6: in a program the checker has accepted, the two sides of every
\* assignment have the same type and the assignment has the type of its
\* left-hand side; and an assignment whose two sides are well typed and
\* of different types is rejected with a type-mismatch error.
C6_AssignmentTypesMatch ==
    /\ tc_pc = "checked" =>
          \A e \in ExprsOfTree : e.kind = "ASSIGN_EXP" =>
              /\ e.l_exp.typ # NoTyp
              /\ e.l_exp.typ = e.r_exp.typ
              /\ e.typ = e.l_exp.typ
    /\ ( /\ tc_pc = "raised" /\ IsAssignProgram
         /\ check_expr_raises(FirstAssign.l_exp, AllDecs(tree)) = <<>>
         /\ check_expr_raises(FirstAssign.r_exp, AllDecs(tree)) = <<>>
         /\ typ_of(FirstAssign.l_exp, AllDecs(tree)) # typ_of(FirstAssign.r_exp, AllDecs(tree)) )
       => tc_err = "TypeException: Mismatched types"

\* an assignment of a string to a string variable has been accepted
C6_AcceptedAssignment ==
    /\ tc_pc = "checked" /\ IsAssignProgram
    /\ FirstAssign.l_exp.kind = "VAR_EXP"
    /\ FirstAssign.r_exp.typ = "STRING"
    /\ FirstAssign.typ = "STRING"

\* the array type of an element type
ArrType(t) == IF t = "INT" THEN "INT_ARR" ELSE IF t = "STRING" THEN "STR_ARR" ELSE t
\* the type a declaration gives its name, an array's being an array type
DeclaredType(dec) == IF dec.kind = "ARR_DEC" THEN ArrType(dec.typ) ELSE dec.typ
\* the type of an argument: a whole array variable has its array type
ArgType(arg, D) ==
    IF arg.kind = "VAR_EXP" /\ HasDec(arg, D) THEN DeclaredType(DecOf(arg, D)) ELSE arg.typ

\* C7: in a program the checker has accepted, every call has as many
\* arguments as its function has parameters, and each argument has the
\* declared type of its parameter, an array type being different from
\* its element type.
C7_ArgumentsMatchParameters ==
    tc_pc = "checked" =>
        \A c \in ExprsOfTree : c.kind = "FUN_CALL_EXP" =>
            /\ HasDec(c, AllDecs(tree))
            /\ DecOf(c, AllDecs(tree)).kind = "FUN_DEC"
            /\ Len(c.params) = Len(DecOf(c, AllDecs(tree)).params)
            /\ \A k \in DOMAIN c.params :
                  ArgType(c.params[k], AllDecs(tree))
                      = DeclaredType(DecOf(c, AllDecs(tree)).params[k])

\* C8: a program the checker has accepted declares no variable and no
\* array of type VOID, global, parameter or local.
C8_NoVoidDeclaration ==
    tc_pc = "checked" =>
        \A d \in AllDecs(tree) : d.kind \in {"VAR_DEC", "ARR_DEC"} => d.typ # "VOID"

\* an array declaration that has a size, and one less than 1
SizedBelowOne(d) == d.kind = "ARR_DEC" /\ d.size.py # "NoneType" /\ d.size.n < 1
ArraySizeError == "TypeException: Array declaration must have size of at least 1."

\* C9: the resolver accepts no program declaring a sized array of size
\* less than 1, and raises its array-size error only for a program that
\* declares one.
C9_ArraySizeErrorExactly ==
    /\ tc_pc \in {"linked", "checked"} => \A d \in AllDecs(tree) : ~SizedBelowOne(d)
    /\ tc_err = ArraySizeError => \E d \in AllDecs(tree) : SizedBelowOne(d)

(***************************************************************************)
(*                  THE PROPERTIES OF THE CODE GENERATOR                   *)
(***************************************************************************)
\* the calls of an expression and of a statement, in the order of the text
RECURSIVE CallsOfExpr(_), CallsOfExprs(_), CallsOfStmt(_), CallsOfStmts(_)
CallsOfExpr(e) ==
    IF e.kind = "FUN_CALL_EXP" THEN CallsOfExprs(e.params) \o <<e>>
    ELSE IF IsOpExp(e) THEN CallsOfExpr(e.l_exp) \o CallsOfExpr(e.r_exp)
    ELSE IF e.kind \in {"NEG_EXP", "ADDR_EXP", "DEREF_EXP"} THEN CallsOfExpr(e.exp)
    ELSE IF e.kind = "ARR_EXP" THEN CallsOfExpr(e.index)
    ELSE <<>>
CallsOfExprs(es) ==
    IF es = <<>> THEN <<>> ELSE CallsOfExpr(Head(es)) \o CallsOfExprs(Tail(es))
CallsOfStmt(stmt) ==
    CASE stmt.kind \in {"EXPR_STMT", "WRITE_STMT"} -> CallsOfExpr(stmt.expr)
      [] stmt.kind = "RET_STMT" ->
            IF stmt.val = None THEN <<>> ELSE CallsOfExpr(stmt.val)
      [] stmt.kind = "IF_STMT" ->
            CallsOfExpr(stmt.cond) \o CallsOfStmt(stmt.true_body)
            \o (IF stmt.false_body = None THEN <<>> ELSE CallsOfStmt(stmt.false_body))
      [] stmt.kind = "WHILE_STMT" -> CallsOfExpr(stmt.cond) \o CallsOfStmt(stmt.body)
      [] stmt.kind = "COMP_STMT" -> CallsOfStmts(stmt.stmt_list)
      [] OTHER -> <<>>
CallsOfStmts(stmts) ==
    IF stmts = <<>> THEN <<>> ELSE CallsOfStmt(Head(stmts)) \o CallsOfStmts(Tail(stmts))
\* the call instructions to functions of the program before index k
CallsBefore(k) ==
    {j \in 1..(k - 1) : prog[j].op = "call" /\ HasLabel(<<prog[j].src.name>>)}
\* the call of main that entered the function at hand: the one whose
\* return address the frame pointer points at (the caller pushed %rbp
\* before the call; main is the only caller, and it makes no call inside
\* an argument)
MainCall == CallsOfStmt(Main.body)[Cardinality(CallsBefore(mem[reg.rbp]))]

\* the value of an argument where main evaluates it: the literal's number,
\* the address of the string's label, the word of the global, or the word
\* of the local in main's frame
ArgValue(arg) ==
    IF arg.kind = "INT_EXP" THEN arg.val.n
    ELSE IF arg.kind = "STR_EXP"
    THEN StringAddr(new_string_label(string_dict[arg.val]))
    ELSE IF DecOf(arg, AllDecs(tree)).is_global THEN mem[GlobalAddr(arg.name)]
    ELSE mem[StackTop + offset[arg.dec]]

\* C10: once offsets are assigned, parameter i (from 0) of every function
\* has offset 16 + 8*i; and when control reaches the first instruction of
\* the called function's body, the word at %rbp + 16 + 8*i holds the
\* value of the call's i-th argument, for each of its n >= 1 arguments.
C10_ArgumentsAtParameterOffsets ==
    /\ cg_pc \in {"emitted", "running", "body", "fault"} =>
          \A f \in Functions : \A k \in DOMAIN f.params :
              offset[f.params[k].line_number] = 16 + 8 * (k - 1)
    /\ cg_pc = "body" =>
          /\ Len(MainCall.params) >= 1
          /\ \A k \in DOMAIN MainCall.params :
                mem[reg.rbp + 16 + 8 * (k - 1)] = ArgValue(MainCall.params[k])

\* the body of f is reached by a call of two arguments of different values
C10_CalleeBodyReached ==
    /\ cg_pc = "body"
    /\ Len(MainCall.params) = 2
    /\ ArgValue(MainCall.params[1]) # ArgValue(MainCall.params[2])
    /\ mem[reg.rbp + 16] = ArgValue(MainCall.params[1])

\* ---- the frame of a function ----
\* the local declarations of a function, nested ones included
LocalDecs(f) == DecsOfStmt(f.body)

\* the words of a local, as offsets from %rbp: the word at its offset, and
\* for an array of size n the n words gen_arr_addr reaches from there
\* (offset + 8 * index)
LocalWords(d) ==
    IF d.kind = "ARR_DEC"
    THEN {offset[d.line_number] + WORD_SIZE * k : k \in 0..(d.size.n - 1)}
    ELSE {offset[d.line_number]}
FrameWords(f) == UNION {LocalWords(d) : d \in LocalDecs(f)}

\* C11: once gen_all has assigned offsets, every local declaration of
\* every function (nested ones included) has an offset that is strictly
\* negative and a multiple of 8, and the function's locals_size is a
\* non-negative multiple of 8 equal to the absolute value of the lowest
\* address a local occupies (0 without locals).
C11_LocalsWithinFrame ==
    (tc_pc = "checked" /\ cg_pc # "idle") =>
        \A f \in Functions :
            /\ \A d \in LocalDecs(f) :
                  /\ d.line_number \in DOMAIN offset
                  /\ offset[d.line_number] < 0
                  /\ offset[d.line_number] % WORD_SIZE = 0
            /\ f.line_number \in DOMAIN locals_size
            /\ locals_size[f.line_number] >= 0
            /\ locals_size[f.line_number] % WORD_SIZE = 0
            /\ IF LocalDecs(f) = {} THEN locals_size[f.line_number] = 0
               ELSE /\ -locals_size[f.line_number] \in FrameWords(f)
                    /\ \A w \in FrameWords(f) : w >= -locals_size[f.line_number]

\* the words of a local array of size n as the layout rule gives them:
\* the n words from offset - 8 * (n - 1) up to its recorded offset; one
\* word for a scalar
SpanBelowOffset(d) ==
    IF d.kind = "ARR_DEC"
    THEN {offset[d.line_number] - WORD_SIZE * k : k \in 0..(d.size.n - 1)}
    ELSE {offset[d.line_number]}

\* C12: once gen_all has assigned offsets, every local array declaration
\* of size n has a recorded offset, and the 8*n bytes from
\* offset - 8*(n-1) to offset are disjoint from the bytes of every other
\* local declaration of the same function.
C12_ArraySpanDisjoint ==
    (tc_pc = "checked" /\ cg_pc # "idle") =>
        \A f \in Functions : \A d \in LocalDecs(f) :
            d.kind = "ARR_DEC" =>
                /\ d.line_number \in DOMAIN offset
                /\ \A e \in LocalDecs(f) \ {d} :
                      /\ e.line_number \in DOMAIN offset
                      /\ SpanBelowOffset(d) \cap SpanBelowOffset(e) = {}

\* ---- address-of ----
\* the statements of main, and main's variable of a name
MainStmts == Main.body.stmt_list
MainLocal(name) ==
    CHOOSE d \in {Main.body.local_decs[k] : k \in DOMAIN Main.body.local_decs} : d.name = name
\* the word of a local of main, main's frame pointer being StackTop
MainWord(name) == mem[StackTop + offset[MainLocal(name).line_number]]

\* main is  p = &v; *p = y;  for a variable or an array element v
StoresThroughAddress ==
    /\ Len(MainStmts) = 2
    /\ MainStmts[1].kind = "EXPR_STMT" /\ MainStmts[1].expr.kind = "ASSIGN_EXP"
    /\ MainStmts[1].expr.r_exp.kind = "ADDR_EXP"
    /\ MainStmts[2].kind = "EXPR_STMT" /\ MainStmts[2].expr.kind = "ASSIGN_EXP"
    /\ MainStmts[2].expr.l_exp.kind = "DEREF_EXP"

\* C13: for a checked program that takes the address of a variable or of
\* an array element, gen_all completes (it raises nothing); and when main,
\* being  p = &x; *p = y;  has run to its end, x holds the value of y.
C13_AddressOfCompletes ==
    /\ (tc_pc = "checked" /\ cg_pc # "idle" /\ StoresThroughAddress) => cg_pc # "raised"
    /\ (cg_pc = "exited" /\ StoresThroughAddress
           /\ MainStmts[1].expr.r_exp.exp.kind = "VAR_EXP") =>
          MainWord("x") = MainWord("y")

\* ---- string literals ----
\* the string labels the emitted code refers to
StringLabelsUsed ==
    {prog[k].src.name :
        k \in {j \in DOMAIN prog : prog[j].op # "label" /\ prog[j].src.m = "immsym"}}
\* the string labels gen_header defines: one .string directive for each
\* item of self.string_dict (lines 195-196)
StringLabelsDefined == {new_string_label(string_dict[v]) : v \in DOMAIN string_dict}

\* C14: once gen_all has written the header for a checked program, every
\* string literal of the program, wherever it stands, is in the string
\* table; gen_all then finds the label of every literal it writes code
\* for (no KeyError), and every string label the emitted code refers to
\* is one the header defines.
C14_EveryStringLiteralLabelled ==
    (tc_pc = "checked" /\ cg_pc # "idle"
        /\ assign_offsets_raises(tree) = <<>> /\ build_string_dict_map_raises(tree) = <<>>) =>
        /\ \A e \in ExprsOfTree : e.kind = "STR_EXP" => e.val \in DOMAIN string_dict
        /\ cg_err # "KeyError"
        /\ StringLabelsUsed \subseteq StringLabelsDefined

\* ---- binary operators ----
\* main is the one statement  l op r;
IsBinaryProgram ==
    /\ Len(MainStmts) = 1 /\ MainStmts[1].kind = "EXPR_STMT"
    /\ MainStmts[1].expr.kind \in {"ARITH_EXP", "COMP_EXP"}
\* main has evaluated its statements: the next line is its return label
AtMainReturn ==
    cg_pc = "running" /\ prog[ip].op = "label" /\ prog[ip].name = ret_label(Main)

\* the value of an expression of variables of main, the global and
\* binary operators, in the state main is in: a division rounds towards
\* zero, a comparison is 1 or 0
RECURSIVE ValueOf(_)
ValueOf(e) ==
    IF e.kind = "VAR_EXP"
    THEN (IF DecOf(e, AllDecs(tree)).is_global THEN mem[GlobalAddr(e.name)]
          ELSE mem[StackTop + offset[e.dec]])
    ELSE LET l == ValueOf(e.l_exp)
             r == ValueOf(e.r_exp)
         IN  CASE e.op = "PLUS" -> l + r
               [] e.op = "MINUS" -> l - r
               [] e.op = "STAR" -> l * r
               [] e.op = "SLASH" -> Quot(l, r)
               [] e.op = "MOD" -> Rem(l, r)
               [] e.op = "BOOLEQ" -> IF l = r THEN 1 ELSE 0
               [] e.op = "NEQUAL" -> IF l # r THEN 1 ELSE 0
               [] e.op = "LESS" -> IF l < r THEN 1 ELSE 0
               [] e.op = "LEQUAL" -> IF l <= r THEN 1 ELSE 0
               [] e.op = "GREATER" -> IF l > r THEN 1 ELSE 0
               [] e.op = "GEQUAL" -> IF l >= r THEN 1 ELSE 0

RECURSIVE TypesOf(_)
TypesOf(e) ==
    CASE e.kind = "VAR_EXP" -> <<"ID">>
      [] e.kind = "INT_EXP" -> <<"NUM">>
      [] e.kind = "STR_EXP" -> <<"STRLIT">>
      [] e.kind = "READ_EXP" -> <<"READ", "LPAREN", "RPAREN">>
      [] e.kind = "FUN_CALL_EXP" -> <<"ID", "LPAREN", "RPAREN">>
      [] e.kind = "NEG_EXP" -> <<"MINUS">> \o TypesOf(e.exp)
      [] e.kind = "ADDR_EXP" -> <<"AMP">> \o TypesOf(e.exp)
      [] e.kind = "DEREF_EXP" -> <<"STAR">> \o TypesOf(e.exp)
      [] OTHER -> TypesOf(e.l_exp) \o <<e.op>> \o TypesOf(e.r_exp)
\* the line of the first token an expression was parsed from
RECURSIVE FirstLine(_)
FirstLine(e) == IF IsOpExp(e) THEN FirstLine(e.l_exp) ELSE e.line_number
\* the nodes of an expression built by E
RECURSIVE NodesOf(_)
NodesOf(e) ==
    {e} \cup (IF IsOpExp(e) THEN NodesOf(e.l_exp) \cup NodesOf(e.r_exp)
              ELSE IF e.kind \in {"NEG_EXP", "ADDR_EXP", "DEREF_EXP"} THEN NodesOf(e.exp)
              ELSE {})
Additive(e) == e.kind = "ARITH_EXP" /\ e.op \in {"PLUS", "MINUS"}
Multiplicative(e) == e.kind = "ARITH_EXP" /\ e.op \in {"STAR", "SLASH", "MOD"}
\* the statement made of the variables a, b, c and two operators
Chain3(op1, op2) ==
    TokensOf(<<Lexeme("ID", NameOf(1)), Sym(op1), Lexeme("ID", NameOf(2)), Sym(op2),
               Lexeme("ID", NameOf(3))>>)
\* the tree (a op1 b) op2 c, and the tree a op1 (b op2 c)
LeftNested(op1, op2) ==
    OpExp("ARITH_EXP", 1, op2,
          OpExp("ARITH_EXP", 1, op1, VarExp(1, NameOf(1)), VarExp(3, NameOf(2))),
          VarExp(5, NameOf(3)))
RightNested(op1, op2) ==
    OpExp("ARITH_EXP", 1, op1, VarExp(1, NameOf(1)),
          OpExp("ARITH_EXP", 3, op2, VarExp(3, NameOf(2)), VarExp(5, NameOf(3))))

LValueKinds == {"VAR_EXP", "ARR_EXP", "DEREF_EXP"}
\* the statement o1 = o2 of two operands, and o1 = o2 = o3 of three
Assign2(o1, o2) == TokensOf(o1 \o <<Sym("EQUAL")>> \o o2)
Assign3(o1, o2, o3) == TokensOf(o1 \o <<Sym("EQUAL")>> \o o2 \o <<Sym("EQUAL")>> \o o3)
\* the operands a, 1, 2, f(), b, c by themselves
IdOperand(k) == <<Lexeme("ID", NameOf(k))>>
NumOperand(k) == <<Lexeme("NUM", NumOf(k))>>
CallOperand(k) == <<Lexeme("ID", NameOf(k)), Sym("LPAREN"), Sym("RPAREN")>>
\* expression is about to look at an = with something else than a
\* variable, an array element or a dereference parsed before it
AtBadAssignment ==
    /\ parse_pc = "first_exp" /\ toks[pos].typ = "EQUAL"
    /\ first_exp.kind \notin LValueKinds
\* the assignment nodes of an expression
AssignNodes(e) == {n \in NodesOf(e) : n.kind = "ASSIGN_EXP"}
\* the parse of the statement has ended
ParseEnded == parse_pc \in {"returned", "raised"}

\* C17: when the expression parsed before an = is not a VarExp, ArrExp or
\* DerefExp, expression raises a ParseException and hands no expression
\* back (1 = 2, a + b = c, a() = 2 and, inside a right-hand side, a = 2 = c);
\* every assignment node of an expression that was handed back has a
\* VarExp, ArrExp or DerefExp on its left.
C17_OnlyLValuesAssigned ==
    /\ [][AtBadAssignment =>
            /\ parse_pc' = "raised" /\ parse_err' = "ParseException"
            /\ stmt_exp' = <<>>]_vars
    /\ [](ParseEnded =>
            /\ stmt_exp # <<>> =>
                  \A n \in AssignNodes(stmt_exp) : n.l_exp.kind \in LValueKinds
            /\ toks \in { Assign2(NumOperand(1), NumOperand(2)),
                           Assign2(IdOperand(1) \o <<Sym("PLUS")>> \o IdOperand(2),
                                   IdOperand(3)),
                           Assign2(CallOperand(1), NumOperand(2)),
                           Assign3(IdOperand(1), NumOperand(2), IdOperand(3)) } =>
                  parse_pc = "raised" /\ parse_err = "ParseException")
\* 1 = 2 was refused
C17_AssignToNumberRefused ==
    /\ parse_pc = "raised" /\ parse_err = "ParseException"
    /\ toks = Assign2(NumOperand(1), NumOperand(2))
    /\ first_exp.kind = "INT_EXP" /\ toks[pos].typ = "EQUAL"

\* the types of a sequence of tokens
TypesOfTokens(ts) == [k \in DOMAIN ts |-> ts[k].typ]
\* the symbols of two characters the texts can hold
TwoCharacterSymbols == {<<"<", "=">>, <<"=", "=">>, <<"!", "=">>, <<">", "=">>}

\* C18: a text that is one of <=, ==, !=, >= is scanned to one token of that
\* symbol's type and two characters, then EOF; the text < = (a blank
\* between the two characters) is scanned to LESS, EQUAL, EOF.
C18_MaximalMunch ==
    scan_pc = "done" =>
        /\ \A s \in TwoCharacterSymbols :
              buf = s => tokens = <<Token(Symbols[s], s, 1), Token("EOF", <<"E", "O", "F">>, 1)>>
        /\ buf = <<"<", " ", "=">> => TypesOfTokens(tokens) = <<"LESS", "EQUAL", "EOF">>

\* the number of newline characters in a text
RECURSIVE Newlines(_)
Newlines(text) ==
    IF text = <<>> THEN 0
    ELSE (IF Head(text) = "\n" THEN 1 ELSE 0) + Newlines(Tail(text))
\* the number of characters of buf before the lexeme of the token t that
\* the step at hand emits: the lexeme ends where the scanner stands
\* (a string literal at its closing quote), EOF stands after the text
CharactersBefore(t) ==
    IF t.typ = "EOF" THEN Len(buf)
    ELSE IF t.typ = "STRLIT" THEN i - Len(t.val) - 1
    ELSE i - Len(t.val)
\* the text of buf that is the lexeme of t, n characters in
IsLexemeAt(t, n) ==
    IF t.typ = "EOF" THEN TRUE
    ELSE IF t.typ = "STRLIT"
    THEN /\ buf[n + 1] = "\"" /\ buf[n + Len(t.val) + 2] = "\""
         /\ SubSeq(buf, n + 2, n + Len(t.val) + 1) = t.val
    ELSE SubSeq(buf, n + 1, n + Len(t.val)) = t.val

\* C19: every token is emitted with line = 1 + the number of newlines of
\* the text before the first character of its lexeme, whether they stand
\* between tokens or inside comments; EOF with 1 + the number of newlines
\* of the whole text.
C19_TokenLines ==
    [][tokens' # tokens =>
          /\ tokens' = Append(tokens, tokens'[Len(tokens')])
          /\ CharactersBefore(tokens'[Len(tokens')]) \in 0..Len(buf)
          /\ IsLexemeAt(tokens'[Len(tokens')], CharactersBefore(tokens'[Len(tokens')]))
          /\ tokens'[Len(tokens')].line
                = 1 + Newlines(SubSeq(buf, 1, CharactersBefore(tokens'[Len(tokens')])))]_vars
\* tokens of lines 1, 4 and 5: newlines between tokens and in a comment
C19_TokensOnLaterLines ==
    /\ scan_pc = "done" /\ Len(tokens) = 4 /\ Newlines(buf) = 4
    /\ [k \in 1..4 |-> tokens[k].line] = <<1, 4, 5, 5>>
    /\ TypesOfTokens(tokens) = <<"NUM", "LEQUAL", "IF", "EOF">>

(***************************************************************************)
(*                       THE PROPERTIES OF THE DRIVER                      *)
(***************************************************************************)
\* C20: an error in one file ends that file's compilation only: when the
\* run has ended, a Parser was constructed for every file of the command
\* line, and the run has not ended in an exception before the last file.
C20_EveryFileAttempted ==
    main_pc \in {"exited", "raised"} =>
        /\ attempted = DOMAIN argv
        /\ main_pc = "raised" => main_k = Len(argv)


\* ---- calls without an argument ----
\* the calls of the program whose argument list is absent
ZeroArgumentCalls == {e \in ExprsOfTree : e.kind = "FUN_CALL_EXP" /\ e.params = <<>>}
\* the four instructions of a call of name without an argument
ZeroArgumentCallCode(name) ==
    << write_instr("push", fp, PyNone),
       write_instr("call", PyName(name), PyNone),
       write_instr("pop", fp, PyNone),
       write_instr("add", PyInt(0), sp) >>
\* the functions that return without a value
ValuelessReturns(f) == {r \in RetsOfStmt(f.body) : r.val = None}

\* C21: once gen_all has run on a checked program, it has not raised
\* because of a call without an argument, and for every such call f() the
\* code written holds push %rbp; call f; pop %rbp; add $0, %rsp in a row.
C21_ZeroArgumentCallTranslated ==
    (tc_pc = "checked" /\ cg_pc # "idle"
        /\ \A f \in Functions : ValuelessReturns(f) = {}) =>
        \A c \in ZeroArgumentCalls :
            /\ cg_pc # "raised"
            /\ \E k \in 1..(Len(prog) - 3) :
                  SubSeq(prog, k, k + 3) = ZeroArgumentCallCode(c.name)

\* ---- return statements in the code written ----
\* C22: once gen_all has run on a checked program without a call that
\* has no argument, a return without a value in a VOID function has not
\* made it raise and the code holds the jump to the function's return
\* label; and the code of a return of a number is the load of the number
\* followed by that jump.
C22_ReturnJumpsToReturnLabel ==
    (tc_pc = "checked" /\ cg_pc # "idle" /\ ZeroArgumentCalls = {}
        /\ assign_offsets_raises(tree) = <<>>) =>
        \A f \in Functions :
            /\ (f.typ = "VOID" /\ ValuelessReturns(f) # {}) =>
                  /\ cg_pc # "raised"
                  /\ \E k \in DOMAIN prog :
                        prog[k] = write_instr("jmp", PyName(ret_label(f)), PyNone)
            /\ \A r \in RetsOfStmt(f.body) :
                  (cg_pc # "raised" /\ r.val # None /\ r.val.kind = "INT_EXP") =>
                      \E k \in 1..(Len(prog) - 1) :
                          /\ prog[k] = write_instr("mov", r.val.val, acc)
                          /\ prog[k + 1] = write_instr("jmp", PyName(ret_label(f)), PyNone)

\* ---- a ! that begins no symbol ----
\* the messages of the exceptions the scanner raises itself (lines 96-97,
\* 111-112, 157-163)
LexErrors ==
    { "Unknown character", "Unexpected newline in string literal",
      "Unclosed string literal", "Unclosed comment" }
\* the character k of the text is a ! that no = follows
BangAlone(text, k) ==
    text[k] = "!" /\ (k = Len(text) \/ text[k + 1] # "=")
\* the tokens whose type is that of a symbol
SymbolTokens == {k \in DOMAIN tokens : tokens[k].typ \in {Symbols[s] : s \in DOMAIN Symbols}}

\* C23: when the scanner has ended on a text without string literals and
\* comments that holds a ! not followed by =, it has ended with one of its
\* own lexical errors; and the scanner never looks up a lexeme that is
\* not a symbol (no KeyError) and never emits a symbol token whose value
\* is not one.
C23_LoneBangIsLexError ==
    /\ (scan_pc \in {"done", "raised"} /\ PlainText(buf)
            /\ \E k \in DOMAIN buf : BangAlone(buf, k)) =>
          scan_pc = "raised" /\ scan_err \in LexErrors
    /\ scan_err # "KeyError"
    /\ \A k \in SymbolTokens : tokens[k].val \in DOMAIN Symbols

\* ---- string literals with an escaped double quote ----
\* the double quote at k closes the literal that character 1 opens: it
\* is the first one after the opening quote with no backslash before it
ClosesLiteral(text, k) ==
    /\ k > 1 /\ text[k] = "\"" /\ text[k - 1] # "\\"
    /\ \A j \in 2..(k - 1) : text[j] = "\"" => text[j - 1] = "\\"

\* C24: when the scanner has ended on a text that begins with a string
\* literal closed on its first line, the first token is the STRLIT whose
\* value is the text between the opening quote and the first double quote
\* that has no backslash before it.
C24_EscapedQuoteInsideLiteral ==
    (scan_pc \in {"done", "raised"} /\ buf # <<>> /\ buf[1] = "\"") =>
        \A k \in DOMAIN buf :
            (ClosesLiteral(buf, k) /\ \A j \in 2..(k - 1) : buf[j] # "\n") =>
                /\ tokens # <<>>
                /\ tokens[1] = Token("STRLIT", SubSeq(buf, 2, k - 1), 1)

\* ---- a * in factor position ----
\* the statement begins with -, & or *, then a * and an identifier that
\* is a factor by itself
StarInFactorPosition ==
    /\ Len(toks) >= 4
    /\ toks[1].typ \in {"MINUS", "AMP", "STAR"}
    /\ toks[2].typ = "STAR" /\ toks[3].typ = "ID"
    /\ toks[4].typ \notin {"LSQUARE", "LPAREN"}

\* C25: when E has ended on a statement that begins with -, & or *
\* followed by * and an identifier, it has returned an expression (it did
\* not raise) whose unary node at the first token has as its operand the
\* DerefExp of the line of the * around the VarExp of the identifier.
C25_DerefInFactorPosition ==
    (parse_pc # "expression" /\ parse_pc # "idle" /\ StarInFactorPosition) =>
        /\ first_exp # <<>>
        /\ \E u \in NodesOf(first_exp) :
              /\ u.kind \in {"NEG_EXP", "ADDR_EXP", "DEREF_EXP"}
              /\ u.line_number = toks[1].line
              /\ u.exp = DerefExp(toks[2].line, VarExp(toks[3].line, toks[3].val))

\* ---- the words of the locals of one function ----
\* C26: once gen_all has run on a checked program, any two distinct local
\* declarations of one function, in the same compound statement, in
\* nested ones or in the bodies of an if, an else and a while, have
\* offsets, and the words they occupy (the word at its offset for a
\* scalar, the n words offset + 8 * i for an array of size n) are
\* disjoint.
C26_LocalsOccupyDisjointWords ==
    (tc_pc = "checked" /\ cg_pc # "idle") =>
        \A f \in Functions : \A d \in LocalDecs(f) : \A e \in LocalDecs(f) \ {d} :
            /\ d.line_number \in DOMAIN offset
            /\ e.line_number \in DOMAIN offset
            /\ LocalWords(d) \cap LocalWords(e) = {}

\* ---- the type of an address expression ----
\* C27: in a program the checker has accepted, the type of every address
\* expression is a pointer type whose deref is the type of the operand,
\* and it is not the operand's own type when that is a pointer type.
C27_AddressTypeInvertsDeref ==
    tc_pc = "checked" =>
        \A e \in ExprsOfTree : e.kind = "ADDR_EXP" =>
            /\ is_pointer(e.typ)
            /\ deref(e.typ) = e.exp.typ
            /\ is_pointer(e.exp.typ) => e.typ # e.exp.typ

\* ---- the end of the token stream ----
\* the generator has ended
Halted == scan_pc \in {"done", "raised"}
\* the tokens of type EOF
EOFTokens == {k \in DOMAIN tokens : tokens[k].typ = "EOF"}
\* what holds of every state of the scanner
HaltsInOneOfTwoWays ==
    /\ steps <= 2 * Len(buf)
    /\ scan_pc = "loop" => (EOFTokens = {} /\ ENABLED NextScan)
    /\ scan_pc = "raised" => (scan_err \in LexErrors /\ EOFTokens = {})
    /\ scan_pc = "done" => (scan_err = "" /\ EOFTokens = {Len(tokens)})
    /\ (scan_pc = "done" /\ calls >= Len(tokens)) => next_token = tokens[Len(tokens)]

\* C28: the scanner's loop makes at most twice as many iterations as the
\* text has characters and goes on until the generator ends; it ends
\* either with one of the four lexical errors, and no token is yielded
\* after it, or with EOF yielded once, as the last token; and once every
\* token has been taken, get_next_token leaves self.next_token as it is,
\* the EOF token when the stream ended with it.
C28_LexerHalts ==
    /\ []HaltsInOneOfTwoWays
    /\ [][Halted => (tokens' = tokens /\ scan_pc' = scan_pc /\ steps' = steps)]_vars
    /\ [][(Halted /\ calls >= Len(tokens)) => next_token' = next_token]_vars

\* ---- the kind of the declaration a use is linked to ----
\* the uses of a name that link_all_refs has linked to a declaration
LinkedUses ==
    {e \in ExprsOfTree :
        e.kind \in {"VAR_EXP", "ARR_EXP", "FUN_CALL_EXP"} /\ HasDec(e, AllDecs(tree))}

\* C29: once link_all_refs has linked the program, every call it linked
\* is linked to a function declaration and no variable or array
\* expression is; a
\* name used as the wrong kind never makes the checker end with the
\* AttributeError of a declaration that has no params.
C29_LinkedKindMatchesUse ==
    /\ tc_pc \in {"linked", "checked"} =>
          \A e \in LinkedUses :
              /\ e.kind = "FUN_CALL_EXP" => DecOf(e, AllDecs(tree)).kind = "FUN_DEC"
              /\ e.kind \in {"VAR_EXP", "ARR_EXP"} => DecOf(e, AllDecs(tree)).kind # "FUN_DEC"
    /\ tc_err # "AttributeError: params"

\* ---- the stack pointer and the frame pointer while the program runs ----
\* where the statements of the body of f begin and end in the code: after
\* the label and the two instructions of the prologue, one statement after
\* the other, the last one ending at the return label; and the add of the
\* epilogue
StatementBoundaries(f) ==
    { LabelIndex(<<f.name>>) + 2
        + Len(gen_stmts(SubSeq(f.body.stmt_list, 1, k), f, AllDecs(tree), offset,
                        string_dict, 0)) : k \in 0..Len(f.body.stmt_list) }
    \cup {LabelIndex(ret_label(f))}
\* the ret of f
RetOf(f) == LabelIndex(ret_label(f)) + 1

\* C30: while the program runs, at every statement boundary of a function
\* and at its return label %rsp is %rbp - locals_size, with %rbp of main
\* where main's prologue put it; and at the ret of a function %rsp is back
\* at the word the function was entered with, which for a function main
\* called holds the address after a call of that function.
C30_StackBalanced ==
    Running =>
        \A f \in Functions :
            /\ ip \in StatementBoundaries(f) =>
                  /\ reg.rsp = reg.rbp - locals_size[f.line_number]
                  /\ f.name = "main" => reg.rbp = StackTop
            /\ ip = RetOf(f) =>
                  /\ reg.rsp = reg.rbp
                  /\ IF f.name = "main" THEN reg.rsp = StackTop
                     ELSE /\ mem[reg.rsp] - 1 \in DOMAIN prog
                          /\ prog[mem[reg.rsp] - 1]
                                = write_instr("call", PyName(f.name), PyNone)

\* main is at its return label after a call of f has returned, f having
\* a local of its own
C30_BackInMainAfterCall ==
    /\ cg_pc = "running" /\ ip = LabelIndex(ret_label(Main)) - 1
    /\ CallsOfStmt(Main.body) # <<>>
    /\ \E f \in Functions : f.name # "main" /\ locals_size[f.line_number] > 0
    /\ reg.rsp = StackTop - locals_size[Main.line_number]
    /\ reg.rbp = StackTop


============================================================================
